---- MODULE Spec2Model ----
(***************************************************************************)
(* A model of the DynamoDB persistent data store of the LaunchDarkly Go    *)
(* SDK (dynamodb_helpers.go): the attribute codec, the size limit, the     *)
(* constructors, Init, Upsert, the read operations and Close, run by       *)
(* several store instances against one shared table; and of the Big        *)
(* Segment store (dynamodb_big_segments_impl.go) reading that table.       *)
(*                                                                         *)
(* Conventions.                                                            *)
(*  - A Go string (and a []byte) is a record [data, pad]: the text `data`  *)
(*    followed by `pad` filler bytes that are not digits.  Str(s) is the   *)
(*    string s itself.  The filler only abbreviates long payloads.         *)
(*  - A DynamoDB attribute value is [type, value]: type "S" or "N" with a  *)
(*    Go string, "SS" with a set of strings, "NULL" for a Go nil.          *)
(*  - A DynamoDB item is a function from attribute names to attribute      *)
(*    values; the table is a function from the primary keys present,       *)
(*    <<namespace, key>>, to items.                                        *)
(*  - Every remote call (GetItem, PutItem, Query, BatchWriteItem) is one   *)
(*    atomic step.  It either reaches the table (ok) or fails with a       *)
(*    transport error and has no effect (~ok).  A call made with a         *)
(*    cancelled context is not sent: it fails as a call that does not      *)
(*    reach the table.                                                     *)
(***************************************************************************)
EXTENDS Integers, Sequences, FiniteSets, TLC

VARIABLES
    table,   \* the DynamoDB table: primary key -> item
    prefix,  \* prefix[s]: the prefix store s was built with
    ctx,     \* ctx[s]: the context of store s's remote calls: "none"
             \* before the store is built, "live", "cancelled" by Close
    pc,      \* pc[s]: where store s's current call stands
    loc,     \* loc[s]: the arguments and locals of store s's current call
    ret,     \* the call that has just returned, with its arguments and what
             \* it returned; cleared when the next call starts
    log      \* history: what a specification records of the calls made

vars == <<table, prefix, ctx, pc, loc, ret, log>>

----------------------------------------------------------------------------
(* Bounds of the model *)

MaxVersion == 2
NumStores == 2
\* the longest list of items given to an Init that is written in batches
MaxBatchItems == 51
\* the number of items DynamoDB returns in one page of a Query
PageSize == 1
\* the latest synchronization time, in milliseconds, a synchronizer stores
MaxTime == 2

Stores == 1..NumStores
\* the instances of the Big Segment store, where a specification has them
\* beside data stores
BigStores == {NumStores + 1}
Versions == 1..MaxVersion

----------------------------------------------------------------------------
(* Constants of the program *)

tablePartitionKey == "namespace"
tableSortKey == "key"
versionAttribute == "version"
itemJSONAttribute == "item"
dynamoDbMaxItemSize == 400000
sizeOverhead == 100
maxBatchSize == 25

bigSegmentsMetadataKey == "big_segments_metadata"
bigSegmentsUserDataKey == "big_segments_user"
bigSegmentsSyncTimeAttr == "synchronizedOn"
bigSegmentsIncludedAttr == "included"
bigSegmentsExcludedAttr == "excluded"

----------------------------------------------------------------------------
(* Go strings *)

Str(s) == [data |-> s, pad |-> 0]
StrLen(t) == Len(t.data) + t.pad
Concat(t, u) == [data |-> t.data \o u.data, pad |-> t.pad + u.pad]

Digits == <<"0", "1", "2", "3", "4", "5", "6", "7", "8", "9">>
IsDigit(c) == \E i \in 1..10 : Digits[i] = c
DigitVal(c) == (CHOOSE i \in 1..10 : Digits[i] = c) - 1

RECURSIVE NatText(_)
NatText(n) == IF n < 10 THEN Digits[n + 1]
              ELSE NatText(n \div 10) \o Digits[(n % 10) + 1]

\* strconv.Itoa
Itoa(n) == IF n < 0 THEN Str("-" \o NatText(0 - n)) ELSE Str(NatText(n))

RECURSIVE DigitsVal(_, _)
DigitsVal(s, acc) ==
    IF Len(s) = 0 THEN acc
    ELSE DigitsVal(SubSeq(s, 2, Len(s)), acc * 10 + DigitVal(SubSeq(s, 1, 1)))

AllDigits(s) == Len(s) > 0 /\ \A i \in 1..Len(s) : IsDigit(SubSeq(s, i, i))

\* strconv.Atoi: [ok, n]
Atoi(t) ==
    LET s == t.data
        signed == Len(s) > 0 /\ SubSeq(s, 1, 1) \in {"-", "+"}
        body == IF signed THEN SubSeq(s, 2, Len(s)) ELSE s
    IN  IF t.pad # 0 \/ ~AllDigits(body) THEN [ok |-> FALSE, n |-> 0]
        ELSE IF signed /\ SubSeq(s, 1, 1) = "-"
             THEN [ok |-> TRUE, n |-> 0 - DigitsVal(body, 0)]
             ELSE [ok |-> TRUE, n |-> DigitsVal(body, 0)]

----------------------------------------------------------------------------
(* Attribute codec *)

NilAttr == [type |-> "NULL", value |-> Str("")]

attrValueOfString(value) == [type |-> "S", value |-> value]

attrValueOfInt(value) == [type |-> "N", value |-> Itoa(value)]

\* a variant that also gives the text of a binary attribute
attrValueToStringOfAny(value) ==
    IF value.type \in {"S", "N", "B"} THEN value.value ELSE Str("")

attrValueToString(value) ==
    IF value.type \in {"S", "N"} THEN value.value ELSE Str("")

\* a variant that decodes every attribute as 0
attrValueToZero(value) == 0

attrValueToInt(value) ==
    IF value.type = "N" /\ Atoi(value.value).ok THEN Atoi(value.value).n ELSE 0

\* strconv.ParseUint(s, 10, 64), for texts of a value below 2^31: [ok, n];
\* no sign is accepted
ParseUint(t) ==
    IF t.pad # 0 \/ ~AllDigits(t.data) THEN [ok |-> FALSE, n |-> 0]
    ELSE [ok |-> TRUE, n |-> DigitsVal(t.data, 0)]

attrValueToUint64(value) ==
    IF value.type = "N" /\ ParseUint(value.value).ok
    THEN ParseUint(value.value).n ELSE 0

\* av[name] of a Go map: nil when the attribute is missing
Attr(av, name) == IF name \in DOMAIN av THEN av[name] ELSE NilAttr

----------------------------------------------------------------------------
(* The store's helpers *)

\* a variant that leaves the prefix out
unprefixedNamespace(s, baseNamespace) == Str(baseNamespace)

prefixedNamespace(s, baseNamespace) ==
    IF prefix[s] = "" THEN Str(baseNamespace)
    ELSE Str(prefix[s] \o ":" \o baseNamespace)

\* a variant that gives every kind the namespace of the kind features
namespaceOfFeatures(s, kind) == prefixedNamespace(s, "features")

\* a DataKind is modelled by its name
namespaceForKind(s, kind) == prefixedNamespace(s, kind)

initedKey(s) == prefixedNamespace(s, "$inited")

encodeItem(s, kind, key, item) ==
    (tablePartitionKey :> attrValueOfString(namespaceForKind(s, kind)))
    @@ (tableSortKey :> attrValueOfString(key))
    @@ (versionAttribute :> attrValueOfInt(item.Version))
    @@ (itemJSONAttribute :> attrValueOfString(item.SerializedItem))

NotFound == [Version |-> -1, SerializedItem |-> Str("")]

\* a variant of decodeItem that fails also where the version is no number or
\* the payload no string
decodeItemStrict(av) ==
    LET key == attrValueToString(Attr(av, tableSortKey))
    IN  IF /\ key # Str("")
           /\ Attr(av, versionAttribute).type = "N"
           /\ Attr(av, itemJSONAttribute).type = "S"
        THEN [ok |-> TRUE, key |-> key,
              item |-> [Version |-> attrValueToInt(Attr(av, versionAttribute)),
                        SerializedItem |-> attrValueToString(Attr(av, itemJSONAttribute))]]
        ELSE [ok |-> FALSE, key |-> Str(""),
              item |-> [Version |-> 0, SerializedItem |-> Str("")]]

decodeItem(av) ==
    LET key == attrValueToString(Attr(av, tableSortKey))
        version == attrValueToInt(Attr(av, versionAttribute))
        itemJSON == attrValueToString(Attr(av, itemJSONAttribute))
    IN  IF key # Str("")
        THEN [ok |-> TRUE, key |-> key,
              item |-> [Version |-> version, SerializedItem |-> itemJSON]]
        ELSE [ok |-> FALSE, key |-> Str(""),
              item |-> [Version |-> 0, SerializedItem |-> Str("")]]

RECURSIVE AttrSizes(_, _)
AttrSizes(item, names) ==
    IF names = {} THEN 0
    ELSE LET key == CHOOSE n \in names : TRUE
         IN  Len(key) + StrLen(attrValueToString(item[key]))
             + AttrSizes(item, names \ {key})

\* a variant of the size check that lets every item through
checkNoLimit(item) == TRUE

ItemSize(item) == sizeOverhead + AttrSizes(item, DOMAIN item)

\* a variant of the size check that rejects an item of exactly the limit
checkSizeBelowLimit(item) == ItemSize(item) < dynamoDbMaxItemSize

checkSizeLimit(item) == ItemSize(item) <= dynamoDbMaxItemSize

----------------------------------------------------------------------------
(* The table: what DynamoDB does with the requests the store sends *)

\* the key attributes of the record at a primary key
keyAttributes(ns, key) ==
    (tablePartitionKey :> attrValueOfString(ns))
    @@ (tableSortKey :> attrValueOfString(key))

PrimaryKey(item) ==
    <<item[tablePartitionKey].value, item[tableSortKey].value>>

\* a variant of the put that leaves no other record in the table
TableReplace(t, item) == [k \in {PrimaryKey(item)} |-> item]

TablePut(t, item) ==
    [k \in DOMAIN t \cup {PrimaryKey(item)} |->
        IF k = PrimaryKey(item) THEN item ELSE t[k]]

TableDelete(t, pk) == [k \in DOMAIN t \ {pk} |-> t[k]]

\* variants of the condition: one that also holds at an equal version, one
\* that holds only where no record is stored, one that always holds
ConditionHoldsAtEqual(t, item, version) ==
    LET pk == <<item[tablePartitionKey].value, item[tableSortKey].value>>
    IN  \/ pk \notin DOMAIN t
        \/ Atoi(version.value).n >= Atoi(t[pk][versionAttribute].value).n

ConditionNotExists(t, item, version) ==
    <<item[tablePartitionKey].value, item[tableSortKey].value>> \notin DOMAIN t

ConditionAlways(t, item, version) == TRUE

\* the ConditionExpression of Upsert, evaluated against the stored item:
\* a comparison with a missing or non-numeric attribute is false
ConditionHolds(t, item, version) ==
    LET pk == PrimaryKey(item)
    IN  \/ pk \notin DOMAIN t
        \/ tablePartitionKey \notin DOMAIN t[pk]
        \/ tableSortKey \notin DOMAIN t[pk]
        \/ /\ versionAttribute \in DOMAIN t[pk]
           /\ t[pk][versionAttribute].type = "N"
           /\ Atoi(version.value).n > Atoi(t[pk][versionAttribute].value).n

\* the sort keys of the model in the order DynamoDB sorts strings, by bytes
\* (the keys "k01", "k02", ... are those of the Inits written in several batches)
BatchKeyName(i) == "k" \o Digits[(i \div 10) + 1] \o Digits[(i % 10) + 1]
KeyOrder ==
    <<"", "$inited", "a", "b", "big_segments_metadata", "c">>
    \o [i \in 1..MaxBatchItems |-> BatchKeyName(i)]
KeyRank(k) == CHOOSE i \in 1..Len(KeyOrder) : KeyOrder[i] = k.data

\* a variant that reads every partition
AllPartitionKeys(t, ns) == DOMAIN t

PartitionKeys(t, ns) == {k \in DOMAIN t : k[1] = ns}

RECURSIVE SortedPartition(_)
SortedPartition(pks) ==
    IF pks = {} THEN <<>>
    ELSE LET first == CHOOSE k \in pks :
                        \A o \in pks : KeyRank(k[2]) <= KeyRank(o[2])
         IN  <<first>> \o SortedPartition(pks \ {first})

\* a Query on one partition, all its pages: the items in sort-key order
QueryItems(t, ns) ==
    LET pks == SortedPartition(PartitionKeys(t, ns))
    IN  [i \in 1..Len(pks) |-> t[pks[i]]]

\* a GetItem: the item map of the result, empty when nothing is stored
GetItem(t, pk) == IF pk \in DOMAIN t THEN t[pk] ELSE <<>>

\* the primary key a store reads and writes an item of a kind at
ItemKey(s, kind, key) == <<namespaceForKind(s, kind), key>>

\* the version and payload of the record at a primary key
Stored(t, pk) == decodeItem(t[pk]).item

----------------------------------------------------------------------------
(* Calls and what they return *)

NoLoc == [op |-> "none"]
NoRet == [op |-> "none"]
NoErr == "none"
TransportErr == "transport"

----------------------------------------------------------------------------
(* Construction of a store *)

\* a variant of the test of the table name that accepts every name
tableNameAccepted(tableName) == FALSE

\* the test newDynamoDBDataStoreImpl and newDynamoDBBigSegmentStoreImpl make
\* of the table name of the builder
tableNameMissing(tableName) == tableName = ""

newRet(impl, s, tableName, built, context, err) ==
    [op |-> "new", impl |-> impl, store |-> s, tableName |-> tableName,
     built |-> built, context |-> context, err |-> err]

\* the two constructors: the store s is built for the table and the prefix
\* of the builder.  configOk: the configuration of the client can be loaded.
\* What is returned tells whether a store is, and whether
\* makeClientAndContext has been called and has created a context.
newStoreImpl(impl, s, tableName, p, configOk) ==
    /\ ctx[s] = "none"
    /\ IF tableNameMissing(tableName)
       THEN /\ ret' = newRet(impl, s, tableName, FALSE, FALSE, "table name is required")
            /\ UNCHANGED <<prefix, ctx>>
       ELSE IF ~configOk
       THEN /\ ret' = newRet(impl, s, tableName, FALSE, TRUE, "configuration")
            /\ UNCHANGED <<prefix, ctx>>
       ELSE /\ ret' = newRet(impl, s, tableName, TRUE, TRUE, NoErr)
            /\ prefix' = [prefix EXCEPT ![s] = p]
            /\ ctx' = [ctx EXCEPT ![s] = "live"]
    /\ UNCHANGED <<table, pc, loc>>

newDynamoDBDataStoreImpl(s, tableName, p, configOk) ==
    newStoreImpl("dynamoDBDataStore", s, tableName, p, configOk)

newDynamoDBBigSegmentStoreImpl(s, tableName, p, configOk) ==
    newStoreImpl("dynamoDBBigSegmentStoreImpl", s, tableName, p, configOk)

\* a variant in which a call made with a cancelled context is sent
callWithoutContext(s, ok) == ok

\* a remote call of store s, made with the store's context, reaches the table
callOk(s, ok) == ok /\ ctx[s] = "live"

Return(s, r) ==
    /\ pc' = [pc EXCEPT ![s] = "idle"]
    /\ loc' = [loc EXCEPT ![s] = NoLoc]
    /\ ret' = r

----------------------------------------------------------------------------
(* Upsert *)

putItemRequest(s, kind, key, newItem) ==
    [Item |-> encodeItem(s, kind, key, newItem),
     version |-> attrValueOfInt(newItem.Version)]

upsertRet(kind, key, newItem, applied, err) ==
    [op |-> "Upsert", kind |-> kind, key |-> key, newItem |-> newItem,
     applied |-> applied, err |-> err]

\* Upsert up to the PutItem call: the item is encoded and its size checked
UpsertCall(s, kind, key, newItem) ==
    /\ pc[s] = "idle"
    /\ LET av == encodeItem(s, kind, key, newItem)
       IN  IF ~checkSizeLimit(av)
           THEN /\ Return(s, upsertRet(kind, key, newItem, FALSE, NoErr))
                /\ UNCHANGED <<table, prefix, ctx>>
           ELSE /\ pc' = [pc EXCEPT ![s] = "upsertPut"]
                /\ loc' = [loc EXCEPT ![s] =
                            [op |-> "Upsert", kind |-> kind, key |-> key,
                             newItem |-> newItem]]
                /\ ret' = NoRet
                /\ UNCHANGED <<table, prefix, ctx>>

\* the conditional PutItem and the return of Upsert
UpsertPut(s, ok) ==
    /\ pc[s] = "upsertPut"
    /\ LET l == loc[s]
           req == putItemRequest(s, l.kind, l.key, l.newItem)
       IN  IF ~callOk(s, ok)
           THEN /\ Return(s, upsertRet(l.kind, l.key, l.newItem, FALSE, TransportErr))
                /\ UNCHANGED <<table, prefix, ctx>>
           ELSE IF ConditionHolds(table, req.Item, req.version)
           THEN /\ table' = TablePut(table, req.Item)
                /\ Return(s, upsertRet(l.kind, l.key, l.newItem, TRUE, NoErr))
                /\ UNCHANGED <<prefix, ctx>>
           ELSE /\ Return(s, upsertRet(l.kind, l.key, l.newItem, FALSE, NoErr))
                /\ UNCHANGED <<table, prefix, ctx>>

----------------------------------------------------------------------------
(* Init *)

\* allData is a sequence of collections [Kind, Items], Items a sequence of
\* [Key, Item]; the items of allData in the order the loops visit them
RECURSIVE ItemsInOrder(_, _, _)
ItemsInOrder(allData, c, i) ==
    IF c > Len(allData) THEN <<>>
    ELSE IF i > Len(allData[c].Items) THEN ItemsInOrder(allData, c + 1, 1)
    ELSE <<[kind |-> allData[c].Kind, key |-> allData[c].Items[i].Key,
            item |-> allData[c].Items[i].Item]>>
         \o ItemsInOrder(allData, c, i + 1)

\* the put requests of Init: one for every item that passes the size check
initPuts(s, allData) ==
    LET all == ItemsInOrder(allData, 1, 1)
        avs == [n \in 1..Len(all) |->
                  encodeItem(s, all[n].kind, all[n].key, all[n].item)]
        kept == SelectSeq(avs, checkSizeLimit)
    IN  [n \in 1..Len(kept) |-> [PutRequest |-> kept[n]]]

\* a variant that does not mark the key of the first put
markAllButFirst(keys, puts) ==
    LET used == {PrimaryKey(puts[n].PutRequest) : n \in 2..Len(puts)}
    IN  [nk \in DOMAIN keys \cup used |-> IF nk \in used THEN FALSE ELSE keys[nk]]

\* unusedOldKeys after the loop over the items: every key put is marked false
markUsed(keys, puts) ==
    LET used == {PrimaryKey(puts[n].PutRequest) : n \in 1..Len(puts)}
    IN  [nk \in DOMAIN keys \cup used |-> IF nk \in used THEN FALSE ELSE keys[nk]]

\* a variant that deletes every key of the kind features that is not put
initDeletesNotPut(s, unusedOldKeys) ==
    {<<namespaceForKind(s, "features"), Str(k)>> : k \in {"a", "b"}}
    \ {k \in DOMAIN unusedOldKeys : ~unusedOldKeys[k]}

\* a variant that deletes nothing
initDeletesNone(s, unusedOldKeys) == {}

\* the keys Init deletes
initDeletes(s, unusedOldKeys) ==
    {k \in DOMAIN unusedOldKeys : unusedOldKeys[k] /\ k[1] # initedKey(s)}

\* a Go map is ranged over in any order
Orderings(S) ==
    {f \in [1..Cardinality(S) -> S] : \A i, j \in DOMAIN f : f[i] = f[j] => i = j}

initedItem(s) ==
    (tablePartitionKey :> attrValueOfString(initedKey(s)))
    @@ (tableSortKey :> attrValueOfString(initedKey(s)))

\* a variant of the request list that leaves the inited key out
initRequestsOfData(s, allData, dels) ==
    initPuts(s, allData)
    \o [n \in 1..Len(dels) |-> [DeleteRequest |-> dels[n]]]

\* a variant of the request list that puts the inited key first
initRequestsInitedFirst(s, allData, dels) ==
    <<[PutRequest |-> initedItem(s)]>>
    \o initPuts(s, allData)
    \o [n \in 1..Len(dels) |-> [DeleteRequest |-> dels[n]]]

\* the request list of Init, the deletes in the order dels
initRequests(s, allData, dels) ==
    initPuts(s, allData)
    \o [n \in 1..Len(dels) |-> [DeleteRequest |-> dels[n]]]
    \o <<[PutRequest |-> initedItem(s)]>>

\* the end of readExistingKeys and Init up to the call of batchWriteRequests
initPlan(s, allData, keys) ==
    LET unusedOldKeys == markUsed(keys, initPuts(s, allData))
    IN  \E dels \in Orderings(initDeletes(s, unusedOldKeys)) :
            /\ pc' = [pc EXCEPT ![s] = "initWrite"]
            /\ loc' = [loc EXCEPT ![s] =
                        [op |-> "Init", allData |-> allData,
                         unusedOldKeys |-> unusedOldKeys,
                         requests |-> initRequests(s, allData, dels)]]

EmptyKeys == [k \in {} |-> TRUE]

\* a variant of what Init returns that never reports an error
initRetNoErr(allData, err) == [op |-> "Init", allData |-> allData, err |-> NoErr]

initRet(allData, err) == [op |-> "Init", allData |-> allData, err |-> err]

\* Init up to the first remote call
InitCall(s, allData) ==
    /\ pc[s] = "idle"
    /\ IF Len(allData) = 0
       THEN initPlan(s, allData, EmptyKeys)
       ELSE /\ pc' = [pc EXCEPT ![s] = "initQuery"]
            /\ loc' = [loc EXCEPT ![s] =
                        [op |-> "Init", allData |-> allData, coll |-> 1,
                         keys |-> EmptyKeys]]
    /\ ret' = NoRet
    /\ UNCHANGED <<table, prefix, ctx>>

\* the keys readExistingKeys reads from the items of one query
keysOf(out) ==
    {<<attrValueToString(Attr(out[i], tablePartitionKey)),
       attrValueToString(Attr(out[i], tableSortKey))>> : i \in 1..Len(out)}

\* readExistingKeys: the query for one collection
InitQuery(s, ok) ==
    /\ pc[s] = "initQuery"
    /\ IF ~callOk(s, ok)
       THEN /\ Return(s, initRet(loc[s].allData, TransportErr))
            /\ UNCHANGED <<table, prefix, ctx>>
       ELSE LET l == loc[s]
                ns == namespaceForKind(s, l.allData[l.coll].Kind)
                keys == [nk \in DOMAIN l.keys \cup keysOf(QueryItems(table, ns))
                            |-> TRUE]
            IN  /\ IF l.coll < Len(l.allData)
                   THEN /\ loc' = [loc EXCEPT ![s].coll = l.coll + 1,
                                              ![s].keys = keys]
                        /\ UNCHANGED pc
                   ELSE initPlan(s, l.allData, keys)
                /\ UNCHANGED <<table, prefix, ctx, ret>>

writeRequest(t, req) ==
    IF "PutRequest" \in DOMAIN req THEN TablePut(t, req.PutRequest)
    ELSE TableDelete(t, req.DeleteRequest)

\* a BatchWriteItem that returns no error: every request of the batch is
\* applied, none is left unprocessed
RECURSIVE BatchWriteItem(_, _)
BatchWriteItem(t, batch) ==
    IF batch = <<>> THEN t
    ELSE BatchWriteItem(writeRequest(t, Head(batch)), Tail(batch))

Min(a, b) == IF a < b THEN a ELSE b

\* a variant of the size of a batch that lets one request more through
batchSizeOver(requests) == Min(Len(requests), maxBatchSize + 1)

\* the size of the next batch, the batch, and the requests left after it
batchSize(requests) == Min(Len(requests), maxBatchSize)
batchOf(requests) == SubSeq(requests, 1, batchSize(requests))

\* a variant of the requests left that keeps the last request of the batch
restFromLast(requests) == SubSeq(requests, batchSize(requests), Len(requests))

restOf(requests) == SubSeq(requests, batchSize(requests) + 1, Len(requests))

\* batchWriteRequests: one turn of its loop, and the return of Init
InitBatch(s, ok) ==
    /\ pc[s] = "initWrite"
    /\ LET requests == loc[s].requests
           batch == batchOf(requests)
           rest == restOf(requests)
       IN  IF ~callOk(s, ok)
           THEN /\ Return(s, initRet(loc[s].allData, TransportErr))
                /\ UNCHANGED <<table, prefix, ctx>>
           ELSE /\ table' = BatchWriteItem(table, batch)
                /\ IF Len(rest) > 0
                   THEN /\ loc' = [loc EXCEPT ![s].requests = rest]
                        /\ UNCHANGED <<pc, ret>>
                   ELSE Return(s, initRet(loc[s].allData, NoErr))
                /\ UNCHANGED <<prefix, ctx>>

\* batchWriteRequests called on its own with a request list: the test of
\* its loop before the first turn
batchWriteRet(err) == [op |-> "batchWriteRequests", err |-> err]

BatchWriteCall(s, requests) ==
    /\ pc[s] = "idle"
    /\ IF Len(requests) > 0
       THEN /\ pc' = [pc EXCEPT ![s] = "batchWrite"]
            /\ loc' = [loc EXCEPT ![s] =
                        [op |-> "batchWriteRequests", requests |-> requests]]
            /\ ret' = NoRet
       ELSE Return(s, batchWriteRet(NoErr))
    /\ UNCHANGED <<table, prefix, ctx>>

\* one turn of the loop of batchWriteRequests, and its return
BatchWriteTurn(s, ok) ==
    /\ pc[s] = "batchWrite"
    /\ LET requests == loc[s].requests
       IN  IF ~callOk(s, ok)
           THEN /\ Return(s, batchWriteRet(TransportErr))
                /\ UNCHANGED <<table, prefix, ctx>>
           ELSE /\ table' = BatchWriteItem(table, batchOf(requests))
                /\ IF Len(restOf(requests)) > 0
                   THEN /\ loc' = [loc EXCEPT ![s].requests = restOf(requests)]
                        /\ UNCHANGED <<pc, ret>>
                   ELSE Return(s, batchWriteRet(NoErr))
                /\ UNCHANGED <<prefix, ctx>>

----------------------------------------------------------------------------
(* Reads *)

isInitialized(s, ok) ==
    callOk(s, ok) /\ DOMAIN GetItem(table, <<initedKey(s), initedKey(s)>>) # {}

\* a variant of IsInitialized that puts the inited key when it finds none
IsInitializedRepairs(s, ok) ==
    /\ pc[s] = "idle"
    /\ Return(s, [op |-> "IsInitialized", value |-> isInitialized(s, ok)])
    /\ table' = IF callOk(s, ok) THEN TablePut(table, initedItem(s)) ELSE table
    /\ UNCHANGED <<prefix, ctx>>

IsInitialized(s, ok) ==
    /\ pc[s] = "idle"
    /\ Return(s, [op |-> "IsInitialized", value |-> isInitialized(s, ok)])
    /\ UNCHANGED <<table, prefix, ctx>>

get(s, kind, key, ok) ==
    LET item == GetItem(table, <<namespaceForKind(s, kind), key>>)
    IN  IF ~callOk(s, ok) THEN [item |-> NotFound, err |-> TransportErr]
        ELSE IF DOMAIN item = {} THEN [item |-> NotFound, err |-> NoErr]
        ELSE IF decodeItem(item).ok
             THEN [item |-> decodeItem(item).item, err |-> NoErr]
             ELSE [item |-> NotFound, err |-> "invalid data"]

Get(s, kind, key, ok) ==
    /\ pc[s] = "idle"
    /\ Return(s, [op |-> "Get", kind |-> kind, key |-> key] @@ get(s, kind, key, ok))
    /\ UNCHANGED <<table, prefix, ctx>>

decodedOk(av) == decodeItem(av).ok

getAll(s, kind, ok) ==
    LET out == QueryItems(table, namespaceForKind(s, kind))
        good == SelectSeq(out, decodedOk)
    IN  IF ~callOk(s, ok) THEN [items |-> <<>>, err |-> TransportErr]
        ELSE [items |-> [i \in 1..Len(good) |->
                            [Key |-> decodeItem(good[i]).key,
                             Item |-> decodeItem(good[i]).item]],
              err |-> NoErr]

GetAll(s, kind, ok) ==
    /\ pc[s] = "idle"
    /\ Return(s, [op |-> "GetAll", kind |-> kind] @@ getAll(s, kind, ok))
    /\ UNCHANGED <<table, prefix, ctx>>

\* one page of a Query on a partition: the items after the sort key `last`
\* (all of them when last is NoKey), PageSize at most, and the
\* LastEvaluatedKey, NoKey when the page is the last
NoKey == [none |-> TRUE]

QueryPage(t, ns, last) ==
    LET all == QueryItems(t, ns)
        skip == Cardinality({i \in 1..Len(all) :
                    /\ last # NoKey
                    /\ KeyRank(all[i][tableSortKey].value) <= KeyRank(last)})
        n == Min(PageSize, Len(all) - skip)
        items == SubSeq(all, skip + 1, skip + n)
    IN  [Items |-> items,
         LastEvaluatedKey |-> IF skip + n < Len(all)
                              THEN items[n][tableSortKey].value ELSE NoKey]

\* a variant of what GetAll returns when a page fails: the items read so far
getAllPartial(results) == [items |-> results, err |-> TransportErr]

\* what GetAll returns when a page fails: nil and the error
getAllFailed(results) == [items |-> <<>>, err |-> TransportErr]

\* GetAll read page by page: the call, up to the first NextPage
GetAllCall(s, kind) ==
    /\ pc[s] = "idle"
    /\ pc' = [pc EXCEPT ![s] = "getAllPage"]
    /\ loc' = [loc EXCEPT ![s] =
                [op |-> "GetAll", kind |-> kind, results |-> <<>>, last |-> NoKey]]
    /\ ret' = NoRet
    /\ UNCHANGED <<table, prefix, ctx>>

\* one NextPage of GetAll and the loop over its items; the return of GetAll
GetAllPage(s, ok) ==
    /\ pc[s] = "getAllPage"
    /\ LET l == loc[s]
           out == QueryPage(table, namespaceForKind(s, l.kind), l.last)
           good == SelectSeq(out.Items, decodedOk)
           results == l.results
                      \o [i \in 1..Len(good) |->
                            [Key |-> decodeItem(good[i]).key,
                             Item |-> decodeItem(good[i]).item]]
       IN  IF ~callOk(s, ok)
           THEN Return(s, [op |-> "GetAll", kind |-> l.kind] @@ getAllFailed(l.results))
           ELSE IF out.LastEvaluatedKey # NoKey
           THEN /\ loc' = [loc EXCEPT ![s].results = results,
                                      ![s].last = out.LastEvaluatedKey]
                /\ UNCHANGED <<pc, ret>>
           ELSE Return(s, [op |-> "GetAll", kind |-> l.kind,
                           items |-> results, err |-> NoErr])
    /\ UNCHANGED <<table, prefix, ctx>>

\* a variant of the probe that counts "not found" as an error
availableIfInited(s, ok) ==
    callOk(s, ok) /\ DOMAIN GetItem(table, <<initedKey(s), initedKey(s)>>) # {}

\* the probe reads the inited key and looks at the error alone
isStoreAvailable(s, ok) == callOk(s, ok)

IsStoreAvailable(s, ok) ==
    /\ pc[s] = "idle"
    /\ Return(s, [op |-> "IsStoreAvailable", value |-> isStoreAvailable(s, ok)])
    /\ UNCHANGED <<table, prefix, ctx>>

\* Close cancels the context of the store's calls, those under way included
Close(s) ==
    /\ ctx[s] # "none"
    /\ ctx' = [ctx EXCEPT ![s] = "cancelled"]
    /\ ret' = [op |-> "Close", err |-> NoErr]
    /\ UNCHANGED <<table, prefix, pc, loc>>

----------------------------------------------------------------------------
(* The Big Segment store: a store instance s with its own prefix and        *)
(* context, reading the records a synchronizer writes                       *)

\* the function prefixedNamespace of the Big Segment store
bigSegmentsNamespace(p, baseNamespace) ==
    IF p = "" THEN Str(baseNamespace) ELSE Str(p \o ":" \o baseNamespace)

metadataKey(p) ==
    <<bigSegmentsNamespace(p, bigSegmentsMetadataKey),
      bigSegmentsNamespace(p, bigSegmentsMetadataKey)>>

membershipKey(p, hashKey) ==
    <<bigSegmentsNamespace(p, bigSegmentsUserDataKey), Str(hashKey)>>

\* BigSegmentStoreMetadata{}, and a nil BigSegmentMembership
ZeroMetadata == [LastUpToDate |-> 0]
NilMembership == [nil |-> TRUE]

\* ldstoreimpl.NewBigSegmentMembershipFromSegmentRefs: the membership made
\* of the two lists of segment references
NewBigSegmentMembershipFromSegmentRefs(includedRefs, excludedRefs) ==
    [included |-> includedRefs, excluded |-> excludedRefs]

\* a variant that reads the set of any attribute that has a value
getStringListFromAny(value) ==
    IF value.type \in {"SS", "S"} THEN
        IF value.type = "SS" THEN value.value ELSE {value.value.data}
    ELSE {}

\* a list of strings is modelled by the set of its elements, nil by {}
getStringListFromSet(value) ==
    IF value.type = "SS" THEN value.value ELSE {}

getMetadata(s, ok) ==
    LET item == GetItem(table, metadataKey(prefix[s]))
        value == attrValueToUint64(Attr(item, bigSegmentsSyncTimeAttr))
    IN  IF ~callOk(s, ok) THEN [value |-> ZeroMetadata, err |-> TransportErr]
        ELSE IF DOMAIN item = {} THEN [value |-> ZeroMetadata, err |-> NoErr]
        ELSE IF value = 0 THEN [value |-> ZeroMetadata, err |-> NoErr]
        ELSE [value |-> [LastUpToDate |-> value], err |-> NoErr]

GetMetadata(s, ok) ==
    /\ pc[s] = "idle"
    /\ Return(s, [op |-> "GetMetadata", store |-> s] @@ getMetadata(s, ok))
    /\ UNCHANGED <<table, prefix, ctx>>

getMembership(s, contextHashKey, ok) ==
    LET item == GetItem(table, membershipKey(prefix[s], contextHashKey))
        includedRefs == getStringListFromSet(Attr(item, bigSegmentsIncludedAttr))
        excludedRefs == getStringListFromSet(Attr(item, bigSegmentsExcludedAttr))
    IN  IF ~callOk(s, ok) THEN [value |-> NilMembership, err |-> TransportErr]
        ELSE IF DOMAIN item = {}
        THEN [value |-> NewBigSegmentMembershipFromSegmentRefs({}, {}), err |-> NoErr]
        ELSE [value |-> NewBigSegmentMembershipFromSegmentRefs(includedRefs, excludedRefs),
              err |-> NoErr]

GetMembership(s, contextHashKey, ok) ==
    /\ pc[s] = "idle"
    /\ Return(s, [op |-> "GetMembership", store |-> s,
                  contextHashKey |-> contextHashKey]
                 @@ getMembership(s, contextHashKey, ok))
    /\ UNCHANGED <<table, prefix, ctx>>

----------------------------------------------------------------------------
(* The data the calls are made with *)

Kinds == {"features", "segments"}
Keys == {Str("a"), Str("b")}

BigPayload == [data |-> "z", pad |-> dynamoDbMaxItemSize]
SmallPayloads == {Str("x"), Str("y")}

ItemsOf(versions, payloads) == [Version : versions, SerializedItem : payloads]
Items == ItemsOf(Versions, SmallPayloads \cup {BigPayload})

\* the lists of keyed items with distinct keys, in the order of the keys
ItemLists(keys, items) ==
    {l \in UNION {[1..n -> [Key : keys, Item : items]] : n \in 0..Cardinality(keys)} :
        \A i, j \in DOMAIN l :
            i < j => KeyRank(l[i].Key) < KeyRank(l[j].Key)}

\* the data sets with one collection for each kind of kinds, in that order,
\* the collection of a kind a list over keys[kind]
DataSets(kinds, keys, items) ==
    {d \in [1..Len(kinds) -> [Kind : Kinds, Items : ItemLists(UNION {keys[k] : k \in DOMAIN keys}, items)]] :
        \A c \in DOMAIN d :
            /\ d[c].Kind = kinds[c]
            /\ \A i \in DOMAIN d[c].Items : d[c].Items[i].Key \in keys[kinds[c]]}

\* the records an external synchronizer keeps in the table
metadataItem(p, time) ==
    LET key == IF p = "" THEN Str(bigSegmentsMetadataKey)
               ELSE Str(p \o ":" \o bigSegmentsMetadataKey)
    IN  (tablePartitionKey :> attrValueOfString(key))
        @@ (tableSortKey :> attrValueOfString(key))
        @@ (bigSegmentsSyncTimeAttr :> [type |-> "N", value |-> Itoa(time)])

\* the synchronizer stores the time of its last synchronization
SyncMetadata(p, time) ==
    /\ table' = TablePut(table, metadataItem(p, time))
    /\ ret' = NoRet
    /\ UNCHANGED <<prefix, ctx, pc, loc>>

\* what may be stored under the names included and excluded: a set of
\* segment references, or a value of another type
SetShapes(ref) ==
    {[type |-> "SS", value |-> {ref}], [type |-> "S", value |-> Str(ref)]}

\* the membership records at a context hash key: each of the two attributes
\* missing or of one of the shapes
MembershipRecords(p, hashKey) ==
    LET keys == keyAttributes(bigSegmentsNamespace(p, bigSegmentsUserDataKey),
                              Str(hashKey))
    IN  {keys}
        \cup {keys @@ (bigSegmentsIncludedAttr :> i) : i \in SetShapes("s1")}
        \cup {keys @@ (bigSegmentsExcludedAttr :> e) : e \in SetShapes("s2")}
        \cup {keys @@ (bigSegmentsIncludedAttr :> i) @@ (bigSegmentsExcludedAttr :> e) :
                i \in SetShapes("s1"), e \in SetShapes("s2")}

\* the synchronizer, or another client, stores a membership record
SyncMembership(p, hashKey) ==
    /\ \E r \in MembershipRecords(p, hashKey) : table' = TablePut(table, r)
    /\ ret' = NoRet
    /\ UNCHANGED <<prefix, ctx, pc, loc>>

membershipItem(p, hashKey, included, excluded) ==
    LET ns == IF p = "" THEN Str(bigSegmentsUserDataKey)
              ELSE Str(p \o ":" \o bigSegmentsUserDataKey)
    IN  (tablePartitionKey :> attrValueOfString(ns))
        @@ (tableSortKey :> attrValueOfString(Str(hashKey)))
        @@ (bigSegmentsIncludedAttr :> [type |-> "SS", value |-> included])
        @@ (bigSegmentsExcludedAttr :> [type |-> "SS", value |-> excluded])

EmptyTable == [k \in {} |-> <<>>]

SyncedTable ==
    TablePut(TablePut(EmptyTable, metadataItem("", 1)),
             membershipItem("", "a", {"s1"}, {"s2"}))

Init ==
    /\ table = SyncedTable
    /\ prefix = [s \in Stores |-> ""]
    /\ ctx = [s \in Stores |-> "live"]
    /\ pc = [s \in Stores |-> "idle"]
    /\ loc = [s \in Stores |-> NoLoc]
    /\ ret = NoRet
    /\ log = {}

----------------------------------------------------------------------------
(* Spec: two stores call concurrently, in any interleaving of their remote  *)
(* calls; Upsert and Init on one kind                                       *)

ConcStores == {1, 2}
ConcKeys == [features |-> Keys]
\* Upsert writes the payload y, Init the payload x
ConcItems == ItemsOf(Versions, {Str("y")})
ConcInitInputs ==
    DataSets(<<>>, ConcKeys, {})
    \cup DataSets(<<"features">>, ConcKeys, ItemsOf({1}, {Str("x")}))

Next ==
    \/ \E s \in ConcStores, key \in Keys, item \in ConcItems :
          UpsertCall(s, "features", key, item) /\ UNCHANGED log
    \/ \E s \in ConcStores, ok \in BOOLEAN : UpsertPut(s, ok) /\ UNCHANGED log
    \/ \E s \in ConcStores, allData \in ConcInitInputs :
          InitCall(s, allData) /\ UNCHANGED log
    \/ \E s \in ConcStores, ok \in BOOLEAN : InitQuery(s, ok) /\ UNCHANGED log
    \/ \E s \in ConcStores, ok \in BOOLEAN : InitBatch(s, ok) /\ UNCHANGED log

Spec == Init /\ [][Next]_vars

----------------------------------------------------------------------------
(* SpecSeq: calls made one after the other, a call starting when no other   *)
(* is running; every operation, Init and the reads on two kinds, Upsert on  *)
(* the kind features                                                        *)

AllIdle == \A s \in Stores : pc[s] = "idle"

SeqKeys == [features |-> Keys, segments |-> {Str("a")}]
SeqInitItems == ItemsOf({1}, {Str("x"), BigPayload})

\* the data sets with no collection, with one and with both
SeqInitInputs ==
    DataSets(<<>>, SeqKeys, {})
    \cup DataSets(<<"features">>, SeqKeys, SeqInitItems)
    \cup DataSets(<<"segments">>, SeqKeys, SeqInitItems)
    \cup DataSets(<<"features", "segments">>, SeqKeys, SeqInitItems)

\* the history of this specification: InitDone, an Init has returned no
\* error; InitOverHigher, the Init called last was given an item, not
\* oversized, of a version below that of the record at its key
InitDone == [op |-> "Init"]
InitOverHigher == [op |-> "InitOverHigher"]

OverHigher(s, allData) ==
    \E c \in DOMAIN allData : \E i \in DOMAIN allData[c].Items :
        LET it == allData[c].Items[i]
            pk == ItemKey(s, allData[c].Kind, it.Key)
        IN  /\ ItemSize(encodeItem(s, allData[c].Kind, it.Key, it.Item))
                  <= dynamoDbMaxItemSize
            /\ pk \in DOMAIN table
            /\ Stored(table, pk).Version > it.Item.Version

Called == log' = log \ {InitOverHigher}

SeqNext ==
    \/ \E key \in SeqKeys.features, item \in Items :
          AllIdle /\ UpsertCall(1, "features", key, item) /\ Called
    \/ \E ok \in BOOLEAN : UpsertPut(1, ok) /\ UNCHANGED log
    \/ \E allData \in SeqInitInputs :
          /\ AllIdle /\ InitCall(1, allData)
          /\ log' = (log \ {InitOverHigher})
                    \cup (IF OverHigher(1, allData) THEN {InitOverHigher} ELSE {})
    \/ \E ok \in BOOLEAN : InitQuery(1, ok) /\ UNCHANGED log
    \/ \E ok \in BOOLEAN :
          /\ InitBatch(1, ok)
          /\ log' = IF ret'.op = "Init" /\ ret'.err = NoErr
                    THEN log \cup {InitDone} ELSE log
    \/ \E ok \in BOOLEAN : AllIdle /\ IsInitialized(1, ok) /\ Called
    \/ \E kind \in Kinds, ok \in BOOLEAN : \E key \in SeqKeys[kind] :
          AllIdle /\ Get(1, kind, key, ok) /\ Called
    \/ \E kind \in Kinds, ok \in BOOLEAN :
          AllIdle /\ GetAll(1, kind, ok) /\ Called
    \/ \E ok \in BOOLEAN : AllIdle /\ IsStoreAvailable(1, ok) /\ Called

SpecSeq == Init /\ [][SeqNext]_vars

----------------------------------------------------------------------------
(* SpecRace: every store makes one Upsert, to a key of one kind, no two to  *)
(* the same key with the same version; every PutItem reaches the table and  *)
(* no Init runs.  log holds the Upserts made.                               *)

RaceKind == "features"

RaceNext ==
    \/ \E s \in Stores, key \in Keys, item \in ItemsOf(Versions, SmallPayloads) :
          /\ \A u \in log : u.store # s
          /\ \A u \in log : u.key = key => u.item.Version # item.Version
          /\ UpsertCall(s, RaceKind, key, item)
          /\ log' = log \cup {[store |-> s, key |-> key, item |-> item]}
    \/ \E s \in Stores : UpsertPut(s, TRUE) /\ UNCHANGED log

SpecRace == Init /\ [][RaceNext]_vars

----------------------------------------------------------------------------
(* Upsert and the version of a record *)

\* the PutItem of the Upsert of store s reaches the table, where a record of
\* a version at least that of the new item is stored
StaleUpsertPut(s) ==
    /\ UpsertPut(s, TRUE)
    /\ LET pk == ItemKey(s, loc[s].kind, loc[s].key)
       IN  /\ pk \in DOMAIN table
           /\ loc[s].newItem.Version <= Stored(table, pk).Version

\* C1: an Upsert whose version is at most that of the record stored at its
\* key (equal included) returns applied=false and no error, and leaves the
\* record, and the whole table, as it was.
C1_StaleUpsertRejected ==
    [][\A s \in ConcStores :
          StaleUpsertPut(s) =>
             /\ ret' = upsertRet(loc[s].kind, loc[s].key, loc[s].newItem,
                                 FALSE, NoErr)
             /\ table' = table]_vars

\* an Upsert has returned not applied, where the record at its key has the
\* version of the Upsert and another payload
C1_Witness ==
    /\ ret.op = "Upsert" /\ ~ret.applied /\ ret.err = NoErr
    /\ \E s \in ConcStores :
          LET pk == ItemKey(s, ret.kind, ret.key)
          IN  /\ pk \in DOMAIN table
              /\ Stored(table, pk).Version = ret.newItem.Version
              /\ Stored(table, pk).SerializedItem # ret.newItem.SerializedItem

\* C2: the PutItem of an Upsert (the item is then not oversized) that reaches
\* the table is applied exactly when no record is stored at the key or the
\* stored version is less than the new one; once applied, the record at the
\* key has the new version and payload.
C2_UpsertAppliedIff ==
    [][\A s \in ConcStores :
          UpsertPut(s, TRUE) =>
             LET pk == ItemKey(s, loc[s].kind, loc[s].key)
                 newer == \/ pk \notin DOMAIN table
                          \/ Stored(table, pk).Version < loc[s].newItem.Version
             IN  /\ ret'.op = "Upsert" /\ ret'.err = NoErr
                 /\ ret'.applied = newer
                 /\ ret'.applied =>
                       /\ pk \in DOMAIN table'
                       /\ Stored(table', pk) = loc[s].newItem]_vars

\* an Upsert of the greatest version has returned applied, and the record at
\* its key has its version and payload
C2_Witness ==
    /\ ret.op = "Upsert" /\ ret.applied /\ ret.newItem.Version = MaxVersion
    /\ \E s \in ConcStores :
          LET pk == ItemKey(s, ret.kind, ret.key)
          IN  pk \in DOMAIN table /\ Stored(table, pk) = ret.newItem

\* every store has made its Upsert and has returned from it
RaceOver == \A s \in Stores : pc[s] = "idle" /\ \E u \in log : u.store = s

\* C3: once the concurrent Upserts have all returned, the record at every key
\* they wrote to has the greatest version among the Upserts to that key, and
\* the payload of that Upsert.
C3_RaceKeepsHighest ==
    RaceOver =>
       \A u \in log :
          (\A o \in log : o.key = u.key => o.item.Version <= u.item.Version)
             => LET pk == ItemKey(u.store, RaceKind, u.key)
                IN  pk \in DOMAIN table /\ Stored(table, pk) = u.item

\* the race is over, and the Upsert that returned last, not applied, is one of
\* version 1 to a key that another store wrote version 2 to
C3_Witness ==
    /\ RaceOver
    /\ ret.op = "Upsert" /\ ~ret.applied /\ ret.newItem.Version = 1
    /\ \E u \in log : u.key = ret.key /\ u.item.Version = 2
    /\ Stored(table, ItemKey(1, RaceKind, ret.key)).Version = 2

\* the records of the data kinds, those a version is stored with
Versioned(t) == {pk \in DOMAIN t : versionAttribute \in DOMAIN t[pk]}

\* C4 as stated: no step of an Init or an Upsert lowers the version of a
\* record.
C4_VersionNeverLowered ==
    [][\A pk \in Versioned(table) \cap Versioned(table') :
          Stored(table, pk).Version <= Stored(table', pk).Version]_vars

\* C4, amended: no step of an Upsert removes a record or lowers its version.
C4_UpsertNeverLowers ==
    [][\A s \in ConcStores :
          (\E ok \in BOOLEAN : UpsertPut(s, ok)) =>
             \A pk \in Versioned(table) :
                /\ pk \in Versioned(table')
                /\ Stored(table, pk).Version <= Stored(table', pk).Version]_vars

\* an Upsert has returned applied while an Init of the other store is writing,
\* and the record at its key has a version above 1
C4_Witness ==
    /\ ret.op = "Upsert" /\ ret.applied
    /\ \E s \in ConcStores :
          /\ pc[s] = "initWrite"
          /\ Stored(table, ItemKey(s, ret.kind, ret.key)).Version > 1

----------------------------------------------------------------------------
(* Init, the size limit and the inited key *)

\* an item is oversized when its encoded size is above the limit
Oversized(s, kind, key, item) ==
    ItemSize(encodeItem(s, kind, key, item)) > dynamoDbMaxItemSize

Fits(s, kind, it) == ~Oversized(s, kind, it.Key, it.Item)

\* the items of a collection that the size check lets through
FittingItems(s, coll) ==
    SelectSeq(coll.Items, LAMBDA it : Fits(s, coll.Kind, it))

\* C5: when an Init, called with nothing else writing, has returned no error,
\* a GetAll of each kind of its data set returns exactly the items of that
\* kind that are not oversized, with their versions and payloads, whatever
\* was stored before, a record of a higher version included.
C5_InitThenGetAll ==
    (ret.op = "Init" /\ ret.err = NoErr) =>
       \A c \in DOMAIN ret.allData :
          getAll(1, ret.allData[c].Kind, TRUE)
             = [items |-> FittingItems(1, ret.allData[c]), err |-> NoErr]

\* an Init has returned no error that was given an item of a version below
\* that of the record stored at its key, and an oversized item
C5_Witness ==
    /\ ret.op = "Init" /\ ret.err = NoErr
    /\ InitOverHigher \in log
    /\ \E c \in DOMAIN ret.allData :
          /\ Len(FittingItems(1, ret.allData[c])) > 0
          /\ Len(FittingItems(1, ret.allData[c])) < Len(ret.allData[c].Items)

\* C6: IsInitialized, its GetItem reaching the table, returns false where no
\* Init has returned no error, and true where one has.
C6_IsInitialized ==
    [][IsInitialized(1, TRUE) => ret'.value = (InitDone \in log)]_vars

\* IsInitialized has returned true after an Init and later calls, the table
\* having no record of the kinds
C6_Witness ==
    /\ ret.op = "IsInitialized" /\ ret.value /\ InitDone \in log
    /\ \A kind \in Kinds : PartitionKeys(table, namespaceForKind(1, kind)) = {}

\* a data set that has an oversized item
HasOversized(allData) ==
    \E c \in DOMAIN allData : \E i \in DOMAIN allData[c].Items :
        ~Fits(1, allData[c].Kind, allData[c].Items[i])

\* the last write of an Init of a data set that has an oversized item
InitReturnsWithOversized ==
    /\ pc[1] = "initWrite"
    /\ HasOversized(loc[1].allData)
    /\ InitBatch(1, TRUE) /\ pc'[1] = "idle"

\* what Get and GetAll return for an item of a data set that is stored
Retrievable(kind, it) ==
    /\ get(1, kind, it.Key, TRUE) = [item |-> it.Item, err |-> NoErr]
    /\ \E n \in DOMAIN getAll(1, kind, TRUE).items :
          getAll(1, kind, TRUE).items[n] = it

\* and for one that is not: Get finds nothing, GetAll has no item of its key
NotRetrievable(kind, it) ==
    /\ get(1, kind, it.Key, TRUE) = [item |-> NotFound, err |-> NoErr]
    /\ \A n \in DOMAIN getAll(1, kind, TRUE).items :
          getAll(1, kind, TRUE).items[n].Key # it.Key

\* C7: an Init whose data set has an oversized item, at any place, returns no
\* error when its writes reach the table; after it Get and GetAll do not
\* return the oversized item and return every other item of the data set.
C7_InitSkipsOversized ==
    /\ [][InitReturnsWithOversized => ret'.op = "Init" /\ ret'.err = NoErr]_vars
    /\ [](ret.op = "Init" /\ ret.err = NoErr /\ HasOversized(ret.allData) =>
            \A c \in DOMAIN ret.allData : \A i \in DOMAIN ret.allData[c].Items :
               IF Fits(1, ret.allData[c].Kind, ret.allData[c].Items[i])
               THEN Retrievable(ret.allData[c].Kind, ret.allData[c].Items[i])
               ELSE NotRetrievable(ret.allData[c].Kind, ret.allData[c].Items[i]))

\* an Init of an oversized item followed by two others has returned no error:
\* the two are retrievable, the oversized one is not
C7_Witness ==
    /\ ret.op = "Init" /\ ret.err = NoErr
    /\ Len(ret.allData) = 2
    /\ Len(ret.allData[1].Items) = 2 /\ Len(ret.allData[2].Items) = 1
    /\ NotRetrievable(ret.allData[1].Kind, ret.allData[1].Items[1])
    /\ ret.allData[1].Items[1].Item.SerializedItem = BigPayload
    /\ Retrievable(ret.allData[1].Kind, ret.allData[1].Items[2])
    /\ Retrievable(ret.allData[2].Kind, ret.allData[2].Items[1])

\* C8: an Upsert of an oversized item returns applied=false and no error
\* without calling PutItem, and leaves the table as it was.
C8_UpsertSkipsOversized ==
    [][\A a \in {ret'} \cup {loc'[s] : s \in {1}} :
          (/\ a.op = "Upsert"
           /\ UpsertCall(1, a.kind, a.key, a.newItem)
           /\ Oversized(1, a.kind, a.key, a.newItem))
          => /\ ret' = upsertRet(a.kind, a.key, a.newItem, FALSE, NoErr)
             /\ pc'[1] = "idle"
             /\ table' = table]_vars

\* an Upsert of an oversized item has returned not applied, and a record of a
\* lower version is stored at its key
C8_Witness ==
    /\ ret.op = "Upsert" /\ ~ret.applied /\ ret.err = NoErr
    /\ ret.newItem.SerializedItem = BigPayload
    /\ ItemKey(1, ret.kind, ret.key) \in DOMAIN table
    /\ Stored(table, ItemKey(1, ret.kind, ret.key)).Version < ret.newItem.Version

\* the primary keys of the records the data store must not delete: the inited
\* key of each store and the Big Segment metadata and membership records
Protected(t) ==
    {pk \in DOMAIN t :
        \/ \E s \in Stores : pk = <<initedKey(s), initedKey(s)>>
        \/ pk[1] = Str(bigSegmentsMetadataKey)
        \/ pk[1] = Str(bigSegmentsUserDataKey)}

\* C9: no step of an Init or an Upsert removes the inited key or a Big Segment
\* metadata or membership record: each stays in the table, with its content.
C9_ProtectedRecordsStay ==
    [][\A pk \in Protected(table) :
          pk \in DOMAIN table' /\ table'[pk] = table[pk]]_vars

\* an Init of an empty collection has returned no error and left no record of
\* the kind, where another store had read a key of that kind; the inited key
\* and both Big Segment records are in the table
C9_Witness ==
    /\ ret.op = "Init" /\ ret.err = NoErr
    /\ Len(ret.allData) = 1 /\ Len(ret.allData[1].Items) = 0
    /\ PartitionKeys(table, namespaceForKind(1, ret.allData[1].Kind)) = {}
    /\ \E s \in ConcStores :
          /\ pc[s] = "initWrite"
          /\ \E pk \in DOMAIN loc[s].unusedOldKeys : pk[1] = namespaceForKind(1, "features")
    /\ Cardinality(Protected(table)) = 3

----------------------------------------------------------------------------
(* SpecSnap: two stores call Upsert and Init concurrently.  log holds, for  *)
(* a store whose Init has read the existing keys, the keys outside its data *)
(* set at which an Upsert has created a record since: "running" while the   *)
(* Init writes, "returned" once it has returned no error and the record is  *)
(* still stored.                                                            *)

InputKeys(s, allData) ==
    UNION {{ItemKey(s, allData[c].Kind, allData[c].Items[i].Key) :
               i \in DOMAIN allData[c].Items} : c \in DOMAIN allData}

\* the Inits that have read the existing keys, as an Upsert of s creates a
\* record outside their data set
CreatedSince(s) ==
    LET pk == ItemKey(s, loc[s].kind, loc[s].key)
    IN  IF pk \in DOMAIN table' \ DOMAIN table
        THEN {[store |-> i, pk |-> pk, at |-> "running"] :
                i \in {i \in ConcStores :
                         /\ pc[i] = "initWrite"
                         /\ pk \notin InputKeys(i, loc[i].allData)}}
        ELSE {}

\* the end of the Init of s
InitReturned(s, ok) ==
    IF pc'[s] = "idle"
    THEN {e \in log : e.store # s}
         \cup {[store |-> s, pk |-> e.pk, at |-> "returned"] :
                 e \in {e \in log : ok /\ e.store = s /\ e.pk \in DOMAIN table'}}
    ELSE log

SnapNext ==
    \/ \E s \in ConcStores, key \in Keys :
          /\ UpsertCall(s, "features", key, [Version |-> 1, SerializedItem |-> Str("x")])
          /\ UNCHANGED log
    \/ \E s \in ConcStores, ok \in BOOLEAN :
          UpsertPut(s, ok) /\ log' = log \cup CreatedSince(s)
    \/ \E s \in ConcStores, allData \in ConcInitInputs :
          InitCall(s, allData) /\ log' = {e \in log : e.store # s}
    \/ \E s \in ConcStores, ok \in BOOLEAN : InitQuery(s, ok) /\ UNCHANGED log
    \/ \E s \in ConcStores, ok \in BOOLEAN :
          InitBatch(s, ok) /\ log' = InitReturned(s, ok)

SpecSnap == Init /\ [][SnapNext]_vars

----------------------------------------------------------------------------
(* SpecBatch: one store makes Inits one after the other, each with a list   *)
(* long enough for two or three batches; any remote call may fail.  log     *)
(* holds, for the Init running or made last, the table and the request list *)
(* at the call of batchWriteRequests.                                       *)

BatchItem == [Version |-> 1, SerializedItem |-> Str("x")]

BatchData(n) ==
    <<[Kind |-> "features",
       Items |-> [i \in 1..n |-> [Key |-> Str(BatchKeyName(i)), Item |-> BatchItem]]]>>

BatchInitInputs == {BatchData(n) : n \in (MaxBatchItems - 2)..MaxBatchItems}

BatchNext ==
    \/ \E allData \in BatchInitInputs :
          AllIdle /\ InitCall(1, allData) /\ UNCHANGED log
    \/ \E ok \in BOOLEAN :
          /\ InitQuery(1, ok)
          /\ log' = IF pc'[1] = "initWrite"
                    THEN {[table |-> table, requests |-> loc'[1].requests]}
                    ELSE log
    \/ \E ok \in BOOLEAN : InitBatch(1, ok) /\ UNCHANGED log

SpecBatch == Init /\ [][BatchNext]_vars

\* the table after the first n batches of a request list, none failing
RECURSIVE AfterBatches(_, _, _)
AfterBatches(t, requests, n) ==
    IF n = 0 THEN t
    ELSE LET from == (n - 1) * maxBatchSize + 1
             to == Min(Len(requests), n * maxBatchSize)
         IN  CHOOSE after \in {BatchWriteItem(before, SubSeq(requests, from, to)) :
                                before \in {AfterBatches(t, requests, n - 1)}} : TRUE

\* C11: when a batch of an Init fails, Init returns that error and goes on to
\* no later batch; the failing call leaves the table as it is, and the table
\* is the one the batches submitted before, whole batches of 25 requests in
\* the order of the request list, have made of the table Init started on
C11_FailedBatchStops ==
    [][InitBatch(1, FALSE) =>
          \E h \in log :
             LET done == Len(h.requests) - Len(loc[1].requests)
             IN  /\ ret'.op = "Init" /\ ret'.err = TransportErr
                 /\ pc'[1] = "idle" /\ loc'[1] = NoLoc
                 /\ table' = table
                 /\ done % maxBatchSize = 0
                 /\ table = AfterBatches(h.table, h.requests, done \div maxBatchSize)]_vars

\* an Init has returned the error of a batch that was not its first
C11_Witness ==
    /\ ret.op = "Init" /\ ret.err = TransportErr
    /\ \E h \in log : table # h.table

----------------------------------------------------------------------------
(* SpecClose: store 1 makes calls one after the other, and Close at any     *)
(* time, also during a call and more than once.  log holds the operation    *)
(* called last if it was called after a Close, and whether Close was called *)
(* on a closed store.                                                       *)

CloseKeys == [features |-> {Str("a")}]
CloseInitInputs ==
    DataSets(<<>>, CloseKeys, {})
    \cup DataSets(<<"features">>, CloseKeys, ItemsOf({1}, {Str("x"), BigPayload}))

Closed == ctx[1] = "cancelled"
ClosedAgain == [op |-> "Close", again |-> TRUE]
CalledAfterClose(op) == [op |-> op, closed |-> TRUE]

\* the history when the operation op is called
Calling(op) ==
    log' = (log \cap {ClosedAgain})
           \cup (IF Closed THEN {CalledAfterClose(op)} ELSE {})

CloseNext ==
    \/ \E key \in CloseKeys.features, item \in Items :
          AllIdle /\ UpsertCall(1, "features", key, item) /\ Calling("Upsert")
    \/ \E ok \in BOOLEAN : UpsertPut(1, ok) /\ UNCHANGED log
    \/ \E allData \in CloseInitInputs :
          AllIdle /\ InitCall(1, allData) /\ Calling("Init")
    \/ \E ok \in BOOLEAN : InitQuery(1, ok) /\ UNCHANGED log
    \/ \E ok \in BOOLEAN : InitBatch(1, ok) /\ UNCHANGED log
    \/ \E ok \in BOOLEAN :
          AllIdle /\ IsInitialized(1, ok) /\ Calling("IsInitialized")
    \/ \E key \in CloseKeys.features, ok \in BOOLEAN :
          AllIdle /\ Get(1, "features", key, ok) /\ Calling("Get")
    \/ \E ok \in BOOLEAN : AllIdle /\ GetAll(1, "features", ok) /\ Calling("GetAll")
    \/ \E ok \in BOOLEAN :
          AllIdle /\ IsStoreAvailable(1, ok) /\ Calling("IsStoreAvailable")
    \/ /\ Close(1)
       /\ log' = IF Closed THEN log \cup {ClosedAgain} ELSE log

SpecClose == Init /\ [][CloseNext]_vars

\* what the reads and Init return on a closed store, and what Close returns
ClosedReturn(r) ==
    /\ r.op \in {"Init", "Get", "GetAll"} => r.err # NoErr
    /\ r.op \in {"IsInitialized", "IsStoreAvailable"} => r.value = FALSE
    /\ r.op = "Close" => r.err = NoErr

\* C12 as stated: once the store is closed no step changes the table, Init,
\* Upsert, Get and GetAll return an error, IsInitialized and IsStoreAvailable
\* return false, and Close returns no error
C12_ClosedFailsWithError ==
    [][Closed =>
          /\ table' = table
          /\ ClosedReturn(ret')
          /\ ret'.op = "Upsert" => ret'.err # NoErr]_vars

\* C12, amended: as stated, but the Upsert of an item over the size limit
\* returns not applied and no error, that of any other item an error
C12_ClosedFailsFast ==
    [][/\ ret'.op = "Close" => ret'.err = NoErr
       /\ Closed =>
             /\ table' = table
             /\ ClosedReturn(ret')
             /\ ret'.op = "Upsert" =>
                   /\ ~ret'.applied
                   /\ ret'.err = NoErr <=>
                         Oversized(1, ret'.kind, ret'.key, ret'.newItem)]_vars

\* an Init called after Close was called twice has returned an error, and the
\* table holds no inited key
C12_Witness ==
    /\ Closed /\ ClosedAgain \in log /\ CalledAfterClose("Init") \in log
    /\ ret.op = "Init" /\ ret.err # NoErr
    /\ <<initedKey(1), initedKey(1)>> \notin DOMAIN table

----------------------------------------------------------------------------
(* SpecFail: store 1 makes calls one after the other, GetAll page by page;  *)
(* any remote call may fail.  log tells whether the remote call made last   *)
(* failed, and whether the GetAll under way or returned last has read a     *)
(* page.                                                                    *)

FailKeys == [features |-> {Str("a"), Str("b"), Str("c")}]
FailItems == ItemsOf(Versions, {Str("x")})
FailInitInputs ==
    DataSets(<<>>, FailKeys, {})
    \cup DataSets(<<"features">>, [features |-> {Str("a")}], ItemsOf({1}, {Str("x")}))

Failed == "failed"
PageRead == "page read"
RemoteCall(ok) == log' = IF ok THEN {} ELSE {Failed}

FailNext ==
    \/ \E key \in FailKeys.features, item \in FailItems :
          AllIdle /\ UpsertCall(1, "features", key, item) /\ log' = {}
    \/ \E ok \in BOOLEAN : UpsertPut(1, ok) /\ RemoteCall(ok)
    \/ \E allData \in FailInitInputs :
          AllIdle /\ InitCall(1, allData) /\ log' = {}
    \/ \E ok \in BOOLEAN : InitQuery(1, ok) /\ RemoteCall(ok)
    \/ \E ok \in BOOLEAN : InitBatch(1, ok) /\ RemoteCall(ok)
    \/ \E ok \in BOOLEAN : AllIdle /\ IsInitialized(1, ok) /\ RemoteCall(ok)
    \/ \E key \in FailKeys.features, ok \in BOOLEAN :
          AllIdle /\ Get(1, "features", key, ok) /\ RemoteCall(ok)
    \/ AllIdle /\ GetAllCall(1, "features") /\ log' = {}
    \/ \E ok \in BOOLEAN :
          /\ GetAllPage(1, ok)
          /\ log' = IF ok THEN {PageRead} ELSE (log \cap {PageRead}) \cup {Failed}
    \/ \E ok \in BOOLEAN : AllIdle /\ IsStoreAvailable(1, ok) /\ RemoteCall(ok)

SpecFail == Init /\ [][FailNext]_vars

\* C13: a remote call that fails ends the operation, which returns: Get
\* not-found and the error, GetAll the error and no item, Upsert false and
\* the error, Init the error, IsInitialized and IsStoreAvailable false; the
\* table is not changed by the failing call
C13_TransportErrorReturned ==
    [][(Failed \in log') =>
          /\ pc'[1] = "idle"
          /\ table' = table
          /\ ret'.op \in {"Get", "GetAll", "Upsert", "Init",
                          "IsInitialized", "IsStoreAvailable"}
          /\ ret'.op = "Get" => ret'.item = NotFound /\ ret'.err = TransportErr
          /\ ret'.op = "GetAll" => ret'.items = <<>> /\ ret'.err = TransportErr
          /\ ret'.op = "Upsert" => ~ret'.applied /\ ret'.err = TransportErr
          /\ ret'.op = "Init" => ret'.err = TransportErr
          /\ ret'.op \in {"IsInitialized", "IsStoreAvailable"} => (ret'.value = FALSE)]_vars

\* a GetAll has returned the error of a page that was not its first
C13_Witness ==
    /\ Failed \in log /\ PageRead \in log
    /\ ret.op = "GetAll" /\ ret.err = TransportErr /\ ret.items = <<>>
    /\ \E key \in FailKeys.features : ItemKey(1, "features", key) \in DOMAIN table

----------------------------------------------------------------------------
(* SpecRead: the table holds, in the namespace of a kind, records that      *)
(* another client of the table has written: with the key attributes of the  *)
(* table's schema, but with the version or the payload attribute missing or *)
(* of another type.  Store 1 reads, GetAll page by page, and makes Upserts. *)

ReadKind == "features"

\* what another client may have stored under the names version and item
ForeignVersions ==
    {[type |-> "S", value |-> Str("1")], [type |-> "N", value |-> Str("1")]}
ForeignPayloads ==
    {[type |-> "SS", value |-> {"x"}], [type |-> "N", value |-> Str("7")],
     [type |-> "S", value |-> Str("x")]}

\* the records another client may have stored at a key of the namespace ns
ForeignRecords(ns, key) ==
    {keyAttributes(ns, key)}
    \cup {keyAttributes(ns, key) @@ (versionAttribute :> v) : v \in ForeignVersions}
    \cup {keyAttributes(ns, key) @@ (itemJSONAttribute :> p) : p \in ForeignPayloads}
    \cup {keyAttributes(ns, key) @@ (versionAttribute :> v) @@ (itemJSONAttribute :> p) :
            v \in ForeignVersions, p \in ForeignPayloads}

\* the tables with a record of another client at none, one or both keys
RECURSIVE ForeignTables(_, _)
ForeignTables(ns, keys) ==
    IF keys = {} THEN {SyncedTable}
    ELSE LET key == CHOOSE k \in keys : TRUE
             rest == ForeignTables(ns, keys \ {key})
         IN  rest \cup {TablePut(t, r) : t \in rest, r \in ForeignRecords(ns, key)}

InitRead ==
    /\ table \in ForeignTables(Str(ReadKind), Keys)
    /\ prefix = [s \in Stores |-> ""]
    /\ ctx = [s \in Stores |-> "live"]
    /\ pc = [s \in Stores |-> "idle"]
    /\ loc = [s \in Stores |-> NoLoc]
    /\ ret = NoRet
    /\ log = {}

ReadNext ==
    \/ \E key \in Keys, ok \in BOOLEAN :
          AllIdle /\ Get(1, ReadKind, key, ok) /\ UNCHANGED log
    \/ AllIdle /\ GetAllCall(1, ReadKind) /\ UNCHANGED log
    \/ \E ok \in BOOLEAN : GetAllPage(1, ok) /\ UNCHANGED log
    \/ \E key \in Keys, item \in ItemsOf(Versions, {Str("y")}) :
          AllIdle /\ UpsertCall(1, ReadKind, key, item) /\ UNCHANGED log
    \/ \E ok \in BOOLEAN : UpsertPut(1, ok) /\ UNCHANGED log

SpecRead == InitRead /\ [][ReadNext]_vars

\* a record as the store writes it: a string key, a numeric version and a
\* string payload
WellFormed(r) ==
    /\ tableSortKey \in DOMAIN r /\ r[tableSortKey].type = "S"
    /\ r[tableSortKey].value # Str("")
    /\ versionAttribute \in DOMAIN r /\ r[versionAttribute].type = "N"
    /\ Atoi(r[versionAttribute].value).ok
    /\ itemJSONAttribute \in DOMAIN r /\ r[itemJSONAttribute].type = "S"

\* the version and the payload read from a record, whatever its shape
VersionRead(r) ==
    IF versionAttribute \in DOMAIN r /\ r[versionAttribute].type = "N"
       /\ Atoi(r[versionAttribute].value).ok
    THEN Atoi(r[versionAttribute].value).n ELSE 0

PayloadRead(r) ==
    IF itemJSONAttribute \in DOMAIN r /\ r[itemJSONAttribute].type \in {"S", "N"}
    THEN r[itemJSONAttribute].value ELSE Str("")

\* a Get whose GetItem has reached the table has returned
GetReturned == ret.op = "Get" /\ ret.err # TransportErr

\* the record at the key of the Get that has returned
GetRecord == table[ItemKey(1, ret.kind, ret.key)]

GetOfAbsent ==
    GetReturned /\ ItemKey(1, ret.kind, ret.key) \notin DOMAIN table
        => ret.item = NotFound /\ ret.err = NoErr

GetOfWellFormed ==
    GetReturned /\ ItemKey(1, ret.kind, ret.key) \in DOMAIN table
        => (WellFormed(GetRecord)
              => /\ ret.err = NoErr
                 /\ ret.item.Version = Atoi(GetRecord[versionAttribute].value).n
                 /\ ret.item.SerializedItem = GetRecord[itemJSONAttribute].value)

\* C14 as stated: Get returns not-found and no error for an absent key, the
\* stored version and payload for a well-formed record, and an error for a
\* record that is not well-formed
C14_GetMalformedIsError ==
    /\ GetOfAbsent
    /\ GetOfWellFormed
    /\ GetReturned /\ ItemKey(1, ret.kind, ret.key) \in DOMAIN table
          => (~WellFormed(GetRecord) => ret.err # NoErr)

\* C14, amended: Get returns not-found and no error for an absent key, the
\* stored version and payload for a well-formed record, and for a record
\* whose version or payload attribute is missing or of another type no error
\* either: the version 0 in place of a version that is not a number, the
\* empty payload in place of a payload that is neither string nor number
C14_GetDecodesAnyRecord ==
    /\ GetOfAbsent
    /\ GetOfWellFormed
    /\ GetReturned /\ ItemKey(1, ret.kind, ret.key) \in DOMAIN table
          => /\ ret.err = NoErr
             /\ ret.item.Version = VersionRead(GetRecord)
             /\ ret.item.SerializedItem = PayloadRead(GetRecord)

\* a Get of a record without version and payload has returned no error, the
\* version 0 and the empty payload
C14_Witness ==
    /\ GetReturned /\ ItemKey(1, ret.kind, ret.key) \in DOMAIN table
    /\ DOMAIN GetRecord = {tablePartitionKey, tableSortKey}
    /\ ret.err = NoErr
    /\ ret.item = [Version |-> 0, SerializedItem |-> Str("")]

\* a GetAll whose pages have all reached the table has returned
GetAllReturned == ret.op = "GetAll" /\ ret.err # TransportErr

\* the records of the namespace GetAll has read, in the order of their keys
GetAllRecords == QueryItems(table, namespaceForKind(1, ret.kind))

\* the item returned for the record r
ItemOf(r) ==
    [Key |-> r[tableSortKey].value,
     Item |-> [Version |-> VersionRead(r), SerializedItem |-> PayloadRead(r)]]

\* C15 as stated: GetAll returns no error, an item for every well-formed
\* record of the namespace and none for a record that is not well-formed
C15_GetAllOmitsMalformed ==
    GetAllReturned =>
        /\ ret.err = NoErr
        /\ ret.items = [i \in 1..Len(SelectSeq(GetAllRecords, WellFormed)) |->
                          ItemOf(SelectSeq(GetAllRecords, WellFormed)[i])]

\* C15, amended: GetAll returns no error and an item for every record of the
\* namespace, in the order of the keys: for a well-formed record its version
\* and payload, for a record whose version or payload attribute is missing
\* or of another type the version 0 or the empty payload in its place
C15_GetAllDecodesAnyRecord ==
    GetAllReturned =>
        /\ ret.err = NoErr
        /\ ret.items = [i \in 1..Len(GetAllRecords) |-> ItemOf(GetAllRecords[i])]
        /\ \A i \in 1..Len(GetAllRecords) :
              WellFormed(GetAllRecords[i]) =>
                 /\ ret.items[i].Item.Version
                       = Atoi(GetAllRecords[i][versionAttribute].value).n
                 /\ ret.items[i].Item.SerializedItem
                       = GetAllRecords[i][itemJSONAttribute].value

\* a GetAll has returned two items, one of a well-formed record and one of a
\* record without version and payload
C15_Witness ==
    /\ GetAllReturned /\ ret.err = NoErr /\ Len(ret.items) = 2
    /\ \E i, j \in 1..Len(GetAllRecords) :
          /\ WellFormed(GetAllRecords[i])
          /\ DOMAIN GetAllRecords[j] = {tablePartitionKey, tableSortKey}

----------------------------------------------------------------------------
(* SpecBig: Big Segment stores, store 1 with no prefix and the others with  *)
(* the prefix p, read what a synchronizer stores for either prefix          *)

BigPrefixes == {"", "p"}
BigHashKeys == {"a", "b"}
Times == 0..MaxTime

InitBig ==
    /\ table = EmptyTable
    /\ prefix = [s \in Stores |-> IF s = 1 THEN "" ELSE "p"]
    /\ ctx = [s \in Stores |-> "live"]
    /\ pc = [s \in Stores |-> "idle"]
    /\ loc = [s \in Stores |-> NoLoc]
    /\ ret = NoRet
    /\ log = {}

BigNext ==
    \/ \E p \in BigPrefixes, time \in Times : SyncMetadata(p, time) /\ UNCHANGED log
    \/ \E p \in BigPrefixes : SyncMembership(p, "a") /\ UNCHANGED log
    \/ \E s \in Stores, ok \in BOOLEAN : GetMetadata(s, ok) /\ UNCHANGED log
    \/ \E s \in Stores, hashKey \in BigHashKeys, ok \in BOOLEAN :
          GetMembership(s, hashKey, ok) /\ UNCHANGED log

SpecBig == InitBig /\ [][BigNext]_vars

\* C16: a GetMetadata whose GetItem reaches the table returns no error; it
\* returns the zero watermark when no metadata record is stored for the
\* store's prefix, and the watermark w when one with w > 0 is
C16_GetMetadata ==
    \A s \in Stores :
        ret.op = "GetMetadata" /\ ret.store = s /\ ret.err # TransportErr =>
            /\ ret.err = NoErr
            /\ metadataKey(prefix[s]) \notin DOMAIN table => ret.value = ZeroMetadata
            /\ \A w \in Times \ {0} :
                  /\ metadataKey(prefix[s]) \in DOMAIN table
                  /\ table[metadataKey(prefix[s])] = metadataItem(prefix[s], w)
                  => ret.value = [LastUpToDate |-> w]

\* a store with a prefix has read the latest watermark, stored for its prefix
\* while another is stored for no prefix
C16_Witness ==
    /\ ret.op = "GetMetadata" /\ ret.store = 2 /\ ret.err = NoErr
    /\ ret.value = [LastUpToDate |-> MaxTime]
    /\ metadataKey("") \in DOMAIN table
    /\ table[metadataKey("")] = metadataItem("", 1)

\* the set stored under an attribute name of a record: empty when the
\* attribute is missing or is no set of strings
StoredSet(r, name) ==
    IF name \in DOMAIN r /\ r[name].type = "SS" THEN r[name].value ELSE {}

\* C17: a GetMembership whose GetItem reaches the table returns no error; it
\* returns an empty membership, not nil, when no record is stored at the
\* context hash key under the store's prefix, and else the membership of the
\* record's included and excluded sets, an attribute that is missing or no
\* set of strings counting as the empty set
C17_GetMembership ==
    \A s \in Stores :
        ret.op = "GetMembership" /\ ret.store = s /\ ret.err # TransportErr =>
            LET pk == membershipKey(prefix[s], ret.contextHashKey)
            IN  /\ ret.err = NoErr
                /\ ret.value # NilMembership
                /\ pk \notin DOMAIN table =>
                      ret.value = [included |-> {}, excluded |-> {}]
                /\ pk \in DOMAIN table =>
                      ret.value =
                         [included |-> StoredSet(table[pk], bigSegmentsIncludedAttr),
                          excluded |-> StoredSet(table[pk], bigSegmentsExcludedAttr)]

\* a membership has been read from a record whose included attribute is a
\* string and whose excluded attribute is a set
C17_Witness ==
    /\ ret.op = "GetMembership" /\ ret.store = 1 /\ ret.err = NoErr
    /\ ret.contextHashKey = "a"
    /\ membershipKey("", "a") \in DOMAIN table
    /\ Attr(table[membershipKey("", "a")], bigSegmentsIncludedAttr).type = "S"
    /\ ret.value = [included |-> {}, excluded |-> {"s2"}]

----------------------------------------------------------------------------
(* SpecNew: two data stores and a Big Segment store are built, for the      *)
(* table t or with no table name, with a prefix or none; the stores built   *)
(* make calls one after the other                                           *)

NewStores == {1, 2}
TableNames == {"", "t"}
NewPrefixes == {"", "p", "q"}
NewKey == Str("a")
NewInitInputs ==
    DataSets(<<>>, [features |-> {NewKey}], {})
    \cup DataSets(<<"features">>, [features |-> {NewKey}], ItemsOf({1}, {Str("x")}))

Built(s) == ctx[s] # "none"

InitNew ==
    /\ table = SyncedTable
    /\ prefix = [s \in Stores \cup BigStores |-> ""]
    /\ ctx = [s \in Stores \cup BigStores |-> "none"]
    /\ pc = [s \in Stores \cup BigStores |-> "idle"]
    /\ loc = [s \in Stores \cup BigStores |-> NoLoc]
    /\ ret = NoRet
    /\ log = {}

NewNext ==
    \/ \E s \in NewStores, tableName \in TableNames, p \in NewPrefixes,
          configOk \in BOOLEAN :
          newDynamoDBDataStoreImpl(s, tableName, p, configOk) /\ UNCHANGED log
    \/ \E s \in BigStores, tableName \in TableNames, p \in {"", "p"},
          configOk \in BOOLEAN :
          newDynamoDBBigSegmentStoreImpl(s, tableName, p, configOk) /\ UNCHANGED log
    \/ \E s \in NewStores, item \in ItemsOf(Versions, {Str("y")}) :
          /\ Built(s) /\ AllIdle
          /\ UpsertCall(s, "features", NewKey, item) /\ UNCHANGED log
    \/ \E s \in NewStores : UpsertPut(s, TRUE) /\ UNCHANGED log
    \/ \E s \in NewStores, allData \in NewInitInputs :
          Built(s) /\ AllIdle /\ InitCall(s, allData) /\ UNCHANGED log
    \/ \E s \in NewStores : InitQuery(s, TRUE) /\ UNCHANGED log
    \/ \E s \in NewStores, ok \in BOOLEAN : InitBatch(s, ok) /\ UNCHANGED log
    \/ \E s \in NewStores :
          Built(s) /\ AllIdle /\ IsInitialized(s, TRUE) /\ UNCHANGED log
    \/ \E s \in BigStores :
          Built(s) /\ AllIdle /\ GetMetadata(s, TRUE) /\ UNCHANGED log

SpecNew == InitNew /\ [][NewNext]_vars

\* C18: a constructor called with an empty table name returns an error and
\* no store; it creates no context and changes nothing, the table included
C18_EmptyTableNameFails ==
    [][ret'.op = "new" /\ ret' # ret /\ ret'.tableName = "" =>
          /\ ~ret'.built /\ ret'.err # NoErr
          /\ ~ret'.context
          /\ ctx'[ret'.store] = "none"
          /\ UNCHANGED <<table, prefix, ctx, pc, loc>>]_vars

\* the constructor of the data store has returned an error for an empty
\* table name, while another data store is built
C18_Witness ==
    /\ ret.op = "new" /\ ret.tableName = "" /\ ret.err = "table name is required"
    /\ ret.impl = "dynamoDBDataStore" /\ ctx[ret.store] = "none"
    /\ \E o \in NewStores : Built(o)

\* the primary keys of the records the data store o reads: the items of its
\* kinds and its inited key
Readable(o, pk) ==
    \/ \E kind \in Kinds : pk[1] = namespaceForKind(o, kind)
    \/ pk = <<initedKey(o), initedKey(o)>>

\* store s takes a step of one of its calls
Acts(s) == pc'[s] # pc[s] \/ loc'[s] # loc[s]

\* the namespace of a base name under the prefix p
Namespaced(p, baseNamespace) ==
    IF p = "" THEN Str(baseNamespace) ELSE Str(p \o ":" \o baseNamespace)

\* C19: no step of an Init or an Upsert of a store creates, changes or
\* deletes a record that a store built with another prefix reads, its inited
\* key included, so that what IsInitialized returns to the other store stays
\* the same; the namespaces and the inited key of a store are prefix:base,
\* or base for the empty prefix
C19_PrefixesIsolate ==
    /\ [][\A s, o \in NewStores :
             Acts(s) /\ Built(o) /\ prefix[s] # prefix[o] =>
                /\ \A pk \in DOMAIN table \cup DOMAIN table' :
                      Readable(o, pk) =>
                         /\ pk \in DOMAIN table /\ pk \in DOMAIN table'
                         /\ table'[pk] = table[pk]
                /\ <<initedKey(o), initedKey(o)>> \in DOMAIN table'
                      <=> <<initedKey(o), initedKey(o)>> \in DOMAIN table]_vars
    /\ [](\A s \in NewStores :
             /\ initedKey(s) = Namespaced(prefix[s], "$inited")
             /\ \A kind \in Kinds :
                   namespaceForKind(s, kind) = Namespaced(prefix[s], kind))

\* the store with no prefix and a store with a prefix have both made an Init
\* and hold different versions of the same key
C19_Witness ==
    /\ Built(1) /\ Built(2) /\ prefix[1] = "" /\ prefix[2] = "p"
    /\ <<initedKey(1), initedKey(1)>> \in DOMAIN table
    /\ <<initedKey(2), initedKey(2)>> \in DOMAIN table
    /\ ItemKey(1, "features", NewKey) \in DOMAIN table
    /\ ItemKey(2, "features", NewKey) \in DOMAIN table
    /\ Stored(table, ItemKey(1, "features", NewKey)).Version
          # Stored(table, ItemKey(2, "features", NewKey)).Version

----------------------------------------------------------------------------
(* SpecCodec: an item of any key, version and payload is encoded by a store *)
(* with or without a prefix, and the encoded item decoded                   *)

CodecKeys == {Str(""), Str("a"), Str("7")}
CodecVersions == {0 - 1, 0, 10 * MaxVersion} \cup Versions
\* the empty payload, a payload of digits, one of a byte that is no printable
\* character, and long ones
CodecPayloads == {Str(""), Str("7"), Str("\t")} \cup SmallPayloads \cup {BigPayload}

InitCodec ==
    /\ table = EmptyTable
    /\ prefix \in [Stores -> {"", "p"}]
    /\ ctx = [s \in Stores |-> "live"]
    /\ pc = [s \in Stores |-> "idle"]
    /\ loc \in {[s \in Stores |->
                   IF s = 1 THEN [op |-> "encodeItem", kind |-> kind, key |-> key,
                                  item |-> item]
                   ELSE NoLoc] :
                kind \in Kinds, key \in CodecKeys,
                item \in ItemsOf(CodecVersions, CodecPayloads)}
    /\ ret = NoRet
    /\ log = {}

\* store 1 encodes the item it was given
Encode ==
    /\ loc[1].op = "encodeItem" /\ ret = NoRet
    /\ ret' = [op |-> "encodeItem",
               av |-> encodeItem(1, loc[1].kind, loc[1].key, loc[1].item)]
    /\ UNCHANGED <<table, prefix, ctx, pc, loc, log>>

\* store 1 decodes what it has encoded
Decode ==
    /\ ret.op = "encodeItem"
    /\ ret' = [op |-> "decodeItem"] @@ decodeItem(ret.av)
    /\ UNCHANGED <<table, prefix, ctx, pc, loc, log>>

CodecNext == Encode \/ Decode

SpecCodec == InitCodec /\ [][CodecNext]_vars

\* C20 as stated: decoding the encoded item of any key, version and payload
\* gives that key, version and payload
C20_RoundTripEveryKey ==
    ret.op = "decodeItem" =>
        /\ ret.key = loc[1].key
        /\ ret.item = loc[1].item

\* C20, amended: decoding the encoded item of a key that is not empty, and
\* any version and payload, succeeds and gives that key, version and
\* payload; the encoded item of the empty key is not decoded
C20_RoundTrip ==
    ret.op = "decodeItem" =>
        IF loc[1].key # Str("")
        THEN ret.ok /\ ret.key = loc[1].key /\ ret.item = loc[1].item
        ELSE ~ret.ok

\* an item with a negative version and a payload of a byte that is no
\* printable character has been encoded and decoded
C20_Witness ==
    /\ ret.op = "decodeItem" /\ ret.ok
    /\ loc[1].key = Str("a") /\ prefix[1] = "p"
    /\ ret.item = [Version |-> 0 - 1, SerializedItem |-> Str("\t")]

----------------------------------------------------------------------------
(* SpecSize: store 1, built with a prefix or none, makes Upserts and Inits  *)
(* one after the other with items whose encoded size is one byte below the  *)
(* limit, the limit, and one byte above it                                  *)

\* a payload of n bytes
SizedPayload(n) == [data |-> "", pad |-> n]

\* the size of an encoded item by the rule of the size check: 100 and, for
\* each of the four attributes, the length of its name and of its text
EncodedSize(s, kind, key, item) ==
    100 + (Len("namespace") + StrLen(namespaceForKind(s, kind)))
        + (Len("key") + StrLen(key))
        + (Len("version") + StrLen(Itoa(item.Version)))
        + (Len("item") + StrLen(item.SerializedItem))

\* the items of the lowest and the highest version whose encoded size is
\* 399999, 400000 or 400001
BoundaryItems(s, kind, key) ==
    {[Version |-> v,
      SerializedItem |->
         SizedPayload(dynamoDbMaxItemSize + d
                      - EncodedSize(s, kind, key,
                                    [Version |-> v, SerializedItem |-> Str("")]))] :
       v \in {1, MaxVersion}, d \in {0 - 1, 0, 1}}

SizeKind == "features"

InitSize ==
    /\ table = SyncedTable
    /\ \E p \in {"", "p"} : prefix = [s \in Stores |-> IF s = 1 THEN p ELSE ""]
    /\ ctx = [s \in Stores |-> "live"]
    /\ pc = [s \in Stores |-> "idle"]
    /\ loc = [s \in Stores |-> NoLoc]
    /\ ret = NoRet
    /\ log = {}

SizeNext ==
    \/ \E key \in Keys : \E item \in BoundaryItems(1, SizeKind, key) :
          AllIdle /\ UpsertCall(1, SizeKind, key, item) /\ UNCHANGED log
    \/ \E ok \in BOOLEAN : UpsertPut(1, ok) /\ UNCHANGED log
    \/ \E allData \in DataSets(<<SizeKind>>, [features |-> Keys],
                               BoundaryItems(1, SizeKind, Str("a"))) :
          AllIdle /\ InitCall(1, allData) /\ UNCHANGED log
    \/ \E ok \in BOOLEAN : InitQuery(1, ok) /\ UNCHANGED log
    \/ \E ok \in BOOLEAN : InitBatch(1, ok) /\ UNCHANGED log

SpecSize == InitSize /\ [][SizeNext]_vars

\* the put requests of a request list
PutsOf(requests) ==
    {requests[n].PutRequest : n \in {m \in 1..Len(requests) :
                                       "PutRequest" \in DOMAIN requests[m]}}

\* C21: an Upsert goes on to its PutItem, and an Init puts an item of its
\* input on its request list, if and only if the encoded size of the item is
\* at most 400000; otherwise Upsert returns at once and Init leaves the item
\* out.  Both encode the item with encodeItem.
C21_SizeLimit ==
    [][/\ \A key \in Keys : \A item \in BoundaryItems(1, SizeKind, key) :
             UpsertCall(1, SizeKind, key, item) =>
                /\ pc'[1] = "upsertPut"
                      <=> EncodedSize(1, SizeKind, key, item) <= dynamoDbMaxItemSize
                /\ pc'[1] = "upsertPut" =>
                      putItemRequest(1, SizeKind, key, item).Item
                         = encodeItem(1, SizeKind, key, item)
       /\ pc[1] = "initQuery" /\ pc'[1] = "initWrite" =>
             \A i \in DOMAIN loc[1].allData[1].Items :
                LET it == loc[1].allData[1].Items[i]
                IN  encodeItem(1, SizeKind, it.Key, it.Item)
                       \in PutsOf(loc'[1].requests)
                    <=> EncodedSize(1, SizeKind, it.Key, it.Item)
                           <= dynamoDbMaxItemSize]_vars

\* an Init given an item of size 400000 and one of size 400001 has stored
\* the first and not the second
C21_Witness ==
    /\ ret.op = "Init" /\ ret.err = NoErr /\ Len(ret.allData[1].Items) = 2
    /\ prefix[1] = "p"
    /\ EncodedSize(1, SizeKind, Str("a"), ret.allData[1].Items[1].Item)
          = dynamoDbMaxItemSize
    /\ EncodedSize(1, SizeKind, Str("b"), ret.allData[1].Items[2].Item)
          = dynamoDbMaxItemSize + 1
    /\ ItemKey(1, SizeKind, Str("a")) \in DOMAIN table
    /\ Stored(table, ItemKey(1, SizeKind, Str("a")))
          = ret.allData[1].Items[1].Item
    /\ ItemKey(1, SizeKind, Str("b")) \notin DOMAIN table

----------------------------------------------------------------------------
\* C22: IsStoreAvailable returns true if its read of the inited key
\* completes without a transport error, whether or not the key is there, and
\* false if the read fails; it leaves the table as it is.
C22_AvailableIffNoError ==
    [][ret'.op = "IsStoreAvailable" =>
          /\ ret'.value <=> Failed \notin log'
          /\ table' = table]_vars

\* on a table that holds records and no inited key, IsStoreAvailable has
\* returned true, and IsInitialized returns false
C22_Witness ==
    /\ ret.op = "IsStoreAvailable" /\ ret.value
    /\ <<initedKey(1), initedKey(1)>> \notin DOMAIN table
    /\ DOMAIN table # {}
    /\ ~isInitialized(1, TRUE)

----------------------------------------------------------------------------
(* SpecTwice: store 1 makes Inits and Upserts one after the other; any      *)
(* remote call may fail.  log holds the call that returned last: what it     *)
(* returned, the table it left, and whether it repeated the call that       *)
(* returned before it.                                                       *)

TwiceInitInputs ==
    DataSets(<<>>, SeqKeys, {})
    \cup DataSets(<<"features">>, SeqKeys, SeqInitItems)


\* the call that returned last was the call r, and returned no error
RepeatOf(r) ==
    \E prev \in log :
       /\ prev.ret.op = r.op /\ prev.ret.err = NoErr
       /\ r.op = "Init" => prev.ret.allData = r.allData
       /\ r.op = "Upsert" =>
             /\ prev.ret.kind = r.kind /\ prev.ret.key = r.key
             /\ prev.ret.newItem = r.newItem

Returned ==
    log' = IF ret' = NoRet THEN log
           ELSE {[ret |-> ret', table |-> table', repeat |-> RepeatOf(ret')]}

TwiceNext ==
    \/ \E key \in Keys, item \in Items :
          AllIdle /\ UpsertCall(1, "features", key, item) /\ Returned
    \/ \E ok \in BOOLEAN : UpsertPut(1, ok) /\ Returned
    \/ \E allData \in TwiceInitInputs :
          AllIdle /\ InitCall(1, allData) /\ Returned
    \/ \E ok \in BOOLEAN : InitQuery(1, ok) /\ Returned
    \/ \E ok \in BOOLEAN : InitBatch(1, ok) /\ Returned

SpecTwice == Init /\ [][TwiceNext]_vars

\* C23: an Init that returns no error, made next after an Init of the same
\* data that returned no error, leaves the table the first Init left; an
\* Upsert made next after an Upsert of the same key and item that returned no
\* error leaves the table the first left and returns not applied.
C23_Idempotent ==
    [][/\ (ret'.op = "Init" /\ ret'.err = NoErr /\ RepeatOf(ret')) =>
             \A prev \in log : table' = prev.table
       /\ (ret'.op = "Upsert" /\ RepeatOf(ret')) =>
             /\ \A prev \in log : table' = prev.table
             /\ ~ret'.applied]_vars

\* an Upsert has been made again, and was not applied: the table holds the
\* item that the first stored
C23_Witness ==
    /\ ret.op = "Upsert" /\ ret.err = NoErr /\ ~ret.applied
    /\ \E h \in log : h.repeat /\ h.ret = ret
    /\ ItemKey(1, ret.kind, ret.key) \in DOMAIN table
    /\ Stored(table, ItemKey(1, ret.kind, ret.key)) = ret.newItem

----------------------------------------------------------------------------
\* the put of the inited key
InitedPut(s) == [PutRequest |-> initedItem(s)]

\* the batch that the next turn of batchWriteRequests submits
NextBatch(s) ==
    SubSeq(loc[s].requests, 1, Min(maxBatchSize, Len(loc[s].requests)))

InBatch(req, batch) == \E n \in DOMAIN batch : batch[n] = req

\* C24: the put of the inited key is the last request of the list that Init
\* hands to batchWriteRequests, and only the last; the batch that holds it is
\* the last batch submitted, and Init returns with it; hence the inited key
\* comes to be in the table only in the step that submits the last batch
\* with success, and an Init of which a batch fails has not written it.
C24_InitedLast ==
    [][/\ (pc[1] # "initWrite" /\ pc'[1] = "initWrite") =>
             LET requests == loc'[1].requests
             IN  \A n \in DOMAIN requests :
                    requests[n] = InitedPut(1) <=> n = Len(requests)
       /\ \A ok \in BOOLEAN : InitBatch(1, ok) =>
             /\ InBatch(InitedPut(1), NextBatch(1)) =>
                   /\ pc'[1] = "idle" /\ ret'.op = "Init"
                   /\ NextBatch(1)[Len(NextBatch(1))] = InitedPut(1)
             /\ (<<initedKey(1), initedKey(1)>> \in DOMAIN table'
                   /\ <<initedKey(1), initedKey(1)>> \notin DOMAIN table) =>
                   /\ ok /\ ret'.op = "Init" /\ ret'.err = NoErr
                   /\ Len(loc[1].requests) <= maxBatchSize
             /\ (~ok) => table' = table]_vars

\* an Init has returned the error of its last batch, the batch with the put
\* of the inited key: the table holds the items of the batches before and
\* not the inited key
C24_Witness ==
    /\ ret.op = "Init" /\ ret.err = TransportErr
    /\ <<initedKey(1), initedKey(1)>> \notin DOMAIN table
    /\ \A i \in DOMAIN ret.allData[1].Items :
          i <= 2 * maxBatchSize =>
             ItemKey(1, "features", ret.allData[1].Items[i].Key) \in DOMAIN table
    /\ \E h \in log : Len(h.requests) > 2 * maxBatchSize

----------------------------------------------------------------------------
(* SpecOrder: one store makes Inits one after the other, each with a list   *)
(* long enough for three batches, of which the second item may be over the  *)
(* size limit; any remote call may fail.  log holds, for the                *)
(* Init running or made last, its data set and the table and the request    *)
(* list at the call of batchWriteRequests.                                  *)

OrderItem(big) ==
    [Version |-> 1, SerializedItem |-> IF big THEN BigPayload ELSE Str("x")]

OrderData(n, big) ==
    <<[Kind |-> "features",
       Items |-> [i \in 1..n |-> [Key |-> Str(BatchKeyName(i)),
                                   Item |-> OrderItem(i \in big)]]]>>

OrderInitInputs ==
    {OrderData(n, big) : n \in (MaxBatchItems - 1)..MaxBatchItems,
                         big \in {{}, {2}}}

OrderNext ==
    \/ \E allData \in OrderInitInputs :
          AllIdle /\ InitCall(1, allData) /\ UNCHANGED log
    \/ \E ok \in BOOLEAN :
          /\ InitQuery(1, ok)
          /\ log' = IF pc'[1] = "initWrite"
                    THEN {[allData |-> loc[1].allData, table |-> table,
                           requests |-> loc'[1].requests]}
                    ELSE log
    \/ \E ok \in BOOLEAN : InitBatch(1, ok) /\ UNCHANGED log

SpecOrder == Init /\ [][OrderNext]_vars

\* the primary keys of the items of a data set that are not oversized
FittingKeys(s, allData) ==
    UNION {{ItemKey(s, allData[c].Kind, allData[c].Items[i].Key) :
               i \in {i \in DOMAIN allData[c].Items :
                        Fits(s, allData[c].Kind, allData[c].Items[i])}} :
           c \in DOMAIN allData}

\* the keys that the deletes of a request list name
DeletesOf(requests) ==
    {requests[n].DeleteRequest : n \in {m \in 1..Len(requests) :
                                          "DeleteRequest" \in DOMAIN requests[m]}}

\* C25: in the request list of an Init every put of an item comes before
\* every delete, and no delete names a key that an item is put at; and from
\* the first batch of an Init until the next Init writes, every key that was
\* stored when the Init began to write and is the key of an input item not
\* oversized is in the table.
C25_PutsBeforeDeletes ==
    /\ [][(pc[1] # "initWrite" /\ pc'[1] = "initWrite") =>
             LET requests == loc'[1].requests
             IN  /\ \A i, j \in DOMAIN requests :
                       ("DeleteRequest" \in DOMAIN requests[i]
                          /\ "PutRequest" \in DOMAIN requests[j]
                          /\ requests[j] # InitedPut(1)) => j < i
                 /\ DeletesOf(requests)
                       \cap {PrimaryKey(p) : p \in PutsOf(requests)} = {}
                 /\ FittingKeys(1, loc'[1].allData)
                       \subseteq {PrimaryKey(p) : p \in PutsOf(requests)}]_vars
    /\ [](\A h \in log :
             \A pk \in DOMAIN h.table \cap FittingKeys(1, h.allData) :
                 pk \in DOMAIN table)

\* an Init that puts items at keys stored before and deletes other keys has
\* submitted its first batch and not its last
C25_Witness ==
    /\ pc[1] = "initWrite"
    /\ \E h \in log :
          /\ Len(loc[1].requests) < Len(h.requests)
          /\ DeletesOf(h.requests) # {}
          /\ DeletesOf(h.requests) \subseteq DOMAIN table
          /\ Cardinality(DOMAIN h.table \cap FittingKeys(1, h.allData))
                > maxBatchSize

----------------------------------------------------------------------------
\* the keys of the table in the namespaces of the collections of a data set
KeysOfInput(s, t, allData) ==
    {pk \in DOMAIN t :
        \E c \in DOMAIN allData : pk[1] = namespaceForKind(s, allData[c].Kind)}

\* the primary keys of the items of a data set that are oversized
OversizedKeys(s, allData) ==
    UNION {{ItemKey(s, allData[c].Kind, allData[c].Items[i].Key) :
               i \in {i \in DOMAIN allData[c].Items :
                        ~Fits(s, allData[c].Kind, allData[c].Items[i])}} :
           c \in DOMAIN allData}

\* C26: with nothing else writing, the deletes of the request list of an
\* Init name exactly the keys stored in the namespaces of its collections
\* that are not the key of an input item that passes the size check; so the
\* record at the key of an oversized input item is deleted, and is not in
\* the table when the Init has returned no error.
C26_DeletesExactly ==
    [][/\ (pc[1] # "initWrite" /\ pc'[1] = "initWrite") =>
             DeletesOf(loc'[1].requests)
                = KeysOfInput(1, table, loc'[1].allData)
                     \ FittingKeys(1, loc'[1].allData)
       /\ (pc[1] = "initWrite" /\ ret'.op = "Init" /\ ret'.err = NoErr) =>
             /\ OversizedKeys(1, ret'.allData) \cap DOMAIN table' = {}
             /\ KeysOfInput(1, table', ret'.allData)
                   = FittingKeys(1, ret'.allData)]_vars

\* an Init given an oversized item for a key that holds a record, and an
\* item that fits for another, is about to write: its request list has the
\* delete of the first key and no delete of the second
C26_Witness ==
    /\ pc[1] = "initWrite"
    /\ \E pk \in OversizedKeys(1, loc[1].allData) \cap DOMAIN table :
          pk \in DeletesOf(loc[1].requests)
    /\ \E pk \in FittingKeys(1, loc[1].allData) \cap DOMAIN table :
          pk \notin DeletesOf(loc[1].requests)

----------------------------------------------------------------------------
\* the keys of two tables outside the namespaces of the collections of a
\* data set, the inited key left out
KeysOutsideInput(s, t, u, allData) ==
    ((DOMAIN t \cup DOMAIN u)
        \ (KeysOfInput(s, t, allData) \cup KeysOfInput(s, u, allData)))
    \ {<<initedKey(s), initedKey(s)>>}

\* C27: no step of an Init creates, changes or removes a record of a
\* namespace that is not that of a collection of its data set, the inited
\* key excepted, which it writes when it returns no error: the records of a
\* kind the data set leaves out stay, and an Init of the empty data set
\* writes the inited key and nothing else.
C27_InitFrame ==
    [][(pc[1] \in {"initQuery", "initWrite"}
          \/ pc'[1] \in {"initQuery", "initWrite"}) =>
          LET allData == IF pc[1] = "idle" THEN loc'[1].allData
                         ELSE loc[1].allData
          IN  /\ \A pk \in KeysOutsideInput(1, table, table', allData) :
                    /\ pk \in DOMAIN table /\ pk \in DOMAIN table'
                    /\ table'[pk] = table[pk]
              /\ (ret'.op = "Init" /\ ret'.err = NoErr) =>
                    <<initedKey(1), initedKey(1)>> \in DOMAIN table'
              /\ (Len(allData) = 0 /\ pc[1] = "initWrite") =>
                    table' = IF ret'.err = NoErr
                             THEN TablePut(table, initedItem(1))
                             ELSE table]_vars

\* an Init of the kind features alone has returned no error and has removed
\* the records of that kind; a record of the kind segments is in the table
C27_Witness ==
    /\ ret.op = "Init" /\ ret.err = NoErr
    /\ Len(ret.allData) = 1 /\ ret.allData[1].Kind = "features"
    /\ Len(ret.allData[1].Items) = 0
    /\ ItemKey(1, "segments", Str("a")) \in DOMAIN table
    /\ InitDone \in log

----------------------------------------------------------------------------
\* C28: while Init reads the existing keys it has built no request and
\* leaves the table as it is; when the read fails Init returns the error at
\* once, having submitted no put, no delete and no write of the inited key.
C28_FailedReadWritesNothing ==
    [][/\ (pc[1] = "initQuery" \/ pc'[1] = "initQuery") => table' = table
       /\ pc[1] = "initQuery" => "requests" \notin DOMAIN loc[1]
       /\ InitQuery(1, FALSE) =>
             /\ pc'[1] = "idle" /\ loc'[1] = NoLoc
             /\ ret'.op = "Init" /\ ret'.err = TransportErr
       /\ (pc[1] = "initQuery" /\ pc'[1] = "idle") => ret'.err # NoErr]_vars

\* an Init has returned an error without having come to write, after an
\* earlier Init that wrote its items: the table holds those and not the items
\* of the Init that failed
C28_Witness ==
    /\ ret.op = "Init" /\ ret.err = TransportErr
    /\ \E h \in log :
          /\ h.allData # ret.allData
          /\ FittingKeys(1, h.allData) \subseteq DOMAIN table
          /\ ~(FittingKeys(1, ret.allData) \subseteq DOMAIN table)

----------------------------------------------------------------------------
(* SpecOne: store 1 makes one Init, of a list that takes two batches, while *)
(* the other stores make Upserts at the first and the last key of the list, *)
(* before, during and after the Init.  log holds the data set of the Init   *)
(* and its error once it has returned.                                      *)

Upserters == Stores \ {1}

OneLen == maxBatchSize + 1
OneKeys == {Str(BatchKeyName(1)), Str(BatchKeyName(OneLen))}

\* the first item has the version v, the last the version w and is
\* oversized if big
OneData(v, w, big) ==
    <<[Kind |-> "features",
       Items |-> [i \in 1..OneLen |->
                    [Key |-> Str(BatchKeyName(i)),
                     Item |-> IF i = 1 THEN [Version |-> v, SerializedItem |-> Str("x")]
                              ELSE IF i = OneLen
                                   THEN [Version |-> w,
                                         SerializedItem |->
                                            IF big THEN BigPayload ELSE Str("x")]
                              ELSE BatchItem]]]>>

OneInitInputs == {OneData(v, w, big) : v, w \in {1, MaxVersion}, big \in BOOLEAN}

InitEnds ==
    log' = IF pc[1] # "idle" /\ pc'[1] = "idle"
           THEN {[allData |-> loc[1].allData, err |-> ret'.err]}
           ELSE log

OneNext ==
    \/ \E s \in Upserters, key \in OneKeys, item \in ConcItems :
          UpsertCall(s, "features", key, item) /\ UNCHANGED log
    \/ \E s \in Upserters, ok \in BOOLEAN : UpsertPut(s, ok) /\ UNCHANGED log
    \/ \E allData \in OneInitInputs :
          log = {} /\ InitCall(1, allData) /\ UNCHANGED log
    \/ \E ok \in BOOLEAN : InitQuery(1, ok) /\ InitEnds
    \/ \E ok \in BOOLEAN : InitBatch(1, ok) /\ InitEnds

SpecOne == Init /\ [][OneNext]_vars

\* C29: when the one Init has returned no error, whatever Upserts were made
\* before it, between its steps and after it, every item of its data set
\* that is not oversized has a record at its key, of a version that is at
\* least the version of the item.
C29_InitThenAtLeast ==
    \A h \in log :
       h.err = NoErr =>
          \A c \in DOMAIN h.allData : \A i \in DOMAIN h.allData[c].Items :
             LET it == h.allData[c].Items[i]
                 pk == ItemKey(1, h.allData[c].Kind, it.Key)
             IN  Fits(1, h.allData[c].Kind, it) =>
                    /\ pk \in DOMAIN table
                    /\ Stored(table, pk).Version >= it.Item.Version

\* the Init has returned no error; an Upsert of a higher version than the
\* Init gave the first key has replaced the item of the Init, and an Upsert
\* of the version the Init gave the last key has just been refused
C29_Witness ==
    /\ \E h \in log :
          /\ h.err = NoErr
          /\ Fits(1, "features", h.allData[1].Items[OneLen])
          /\ Stored(table, ItemKey(1, "features", Str(BatchKeyName(1)))).Version
                > h.allData[1].Items[1].Item.Version
          /\ Stored(table, ItemKey(1, "features", Str(BatchKeyName(OneLen))))
                = h.allData[1].Items[OneLen].Item
          /\ ret.op = "Upsert" /\ ret.err = NoErr /\ ~ret.applied
          /\ ret.key = Str(BatchKeyName(OneLen))
          /\ ret.newItem.Version = h.allData[1].Items[OneLen].Item.Version
    /\ \A s \in Stores : pc[s] = "idle"

----------------------------------------------------------------------------
(* SpecTwo: stores 1 and 2 make one Init each, of lists of the same kind    *)
(* that take two batches, their reads and batches interleaved in any way;   *)
(* no remote call fails and nothing else writes.  The table holds records   *)
(* of earlier Upserts.  log holds the table before the Inits and the data   *)
(* sets of the Inits that have returned.                                    *)

TwoStores == {1, 2}
TwoLast == maxBatchSize + 2

\* the keys that a list may have or leave out, and a key in neither list
TwoOptional == {1, TwoLast}
TwoOther == Str("a")

\* the item store s gives every key of its list
TwoItem(s) ==
    [Version |-> s, SerializedItem |-> IF s = 1 THEN Str("x") ELSE Str("y")]

TwoData(s, left) ==
    LET ns == {i \in 1..TwoLast : i \notin left}
        list == SelectSeq([i \in 1..TwoLast |-> i], LAMBDA i : i \in ns)
    IN  <<[Kind |-> "features",
           Items |-> [n \in 1..Len(list) |->
                        [Key |-> Str(BatchKeyName(list[n])), Item |-> TwoItem(s)]]]>>

TwoInitInputs ==
    [s \in TwoStores |-> {TwoData(s, left) : left \in SUBSET TwoOptional}]

OldItem == [Version |-> MaxVersion, SerializedItem |-> Str("old")]

RECURSIVE WithOld(_, _)
WithOld(t, keys) ==
    IF keys = {} THEN t
    ELSE LET key == CHOOSE key \in keys : TRUE
         IN  WithOld(TablePut(t, encodeItem(1, "features", key, OldItem)),
                     keys \ {key})

InitTwo ==
    /\ prefix = [s \in Stores |-> ""]
    /\ \E keys \in SUBSET ({Str(BatchKeyName(i)) : i \in TwoOptional} \cup {TwoOther}) :
          /\ table = WithOld(SyncedTable, keys)
          /\ log = [before |-> WithOld(SyncedTable, keys), done |-> {}]
    /\ ctx = [s \in Stores |-> "live"]
    /\ pc = [s \in Stores |-> "idle"]
    /\ loc = [s \in Stores |-> NoLoc]
    /\ ret = NoRet

TwoNext ==
    \/ \E s \in TwoStores : \E allData \in TwoInitInputs[s] :
          /\ \A d \in log.done : d.store # s
          /\ InitCall(s, allData) /\ UNCHANGED log
    \/ \E s \in TwoStores : InitQuery(s, TRUE) /\ UNCHANGED log
    \/ \E s \in TwoStores :
          /\ InitBatch(s, TRUE)
          /\ log' = IF pc'[s] = "idle"
                    THEN [log EXCEPT !.done =
                             @ \cup {[store |-> s, allData |-> loc[s].allData]}]
                    ELSE log

SpecTwo == InitTwo /\ [][TwoNext]_vars

\* the keyed items of a data set, as pairs of a primary key and an item
KeyedItems(s, allData) ==
    UNION {{<<ItemKey(s, allData[c].Kind, allData[c].Items[i].Key),
              allData[c].Items[i].Item>> : i \in DOMAIN allData[c].Items} :
           c \in DOMAIN allData}

\* C30: when both Inits have returned, the inited key is in the table; every
\* key of both data sets holds the item one of them gave it; every record in
\* the namespace of the data sets is an item of one of them at its key; and
\* no key that held a record before the Inits and is in neither data set
\* holds a record.
C30_TwoInits ==
    (\A s \in TwoStores : \E d \in log.done : d.store = s) =>
       LET given == UNION {KeyedItems(d.store, d.allData) : d \in log.done}
           keysOf1 == {g[1] : g \in UNION {KeyedItems(d.store, d.allData) :
                                             d \in {d \in log.done : d.store = 1}}}
           keysOf2 == {g[1] : g \in UNION {KeyedItems(d.store, d.allData) :
                                             d \in {d \in log.done : d.store = 2}}}
           stored == {pk \in DOMAIN table : pk[1] = namespaceForKind(1, "features")}
       IN  /\ <<initedKey(1), initedKey(1)>> \in DOMAIN table
           /\ \A pk \in keysOf1 \cap keysOf2 :
                 pk \in DOMAIN table /\ <<pk, Stored(table, pk)>> \in given
           /\ \A pk \in stored : <<pk, Stored(table, pk)>> \in given
           /\ \A pk \in DOMAIN log.before :
                 pk[1] = namespaceForKind(1, "features")
                    /\ pk \notin keysOf1 \cup keysOf2 => pk \notin DOMAIN table

\* both Inits have returned, with every key in both lists; the table holds
\* items of both: the second batch of one Init came after the first batch
\* of the other and before its second; a key that held a record before and
\* was in neither list holds none
C30_Witness ==
    /\ \A s \in TwoStores : \E d \in log.done :
          d.store = s /\ Len(d.allData[1].Items) = TwoLast
    /\ Stored(table, ItemKey(1, "features", Str(BatchKeyName(1)))) = TwoItem(2)
    /\ Stored(table, ItemKey(1, "features", Str(BatchKeyName(TwoLast)))) = TwoItem(1)
    /\ ItemKey(1, "features", TwoOther) \in DOMAIN log.before
    /\ ItemKey(1, "features", TwoOther) \notin DOMAIN table

----------------------------------------------------------------------------
(* SpecWrite: batchWriteRequests called on request lists of every length    *)
(* around the size of a batch and its multiples, the empty list included;   *)
(* any BatchWriteItem may fail.  log holds the list of the call made last   *)
(* and the batches it has submitted, in order, those that failed included.  *)

\* request i puts an item at the key of i if i is odd, and deletes the key
\* of i if i is even
WriteRequestAt(i) ==
    IF i % 2 = 1
    THEN [PutRequest |-> encodeItem(1, "features", Str(BatchKeyName(i)), BatchItem)]
    ELSE [DeleteRequest |-> ItemKey(1, "features", Str(BatchKeyName(i)))]

WriteLengths ==
    {0, 1, maxBatchSize - 1, maxBatchSize, maxBatchSize + 1,
     2 * maxBatchSize, MaxBatchItems}

\* the lists of those lengths that start at the first or the second request
WriteInputs ==
    {[i \in 1..nd[1] |-> WriteRequestAt(i + nd[2])] :
        nd \in {nd \in WriteLengths \X {0, 1} : nd[1] + nd[2] <= MaxBatchItems}}

InitWrite ==
    /\ table = SyncedTable
    /\ prefix = [s \in Stores |-> ""]
    /\ ctx = [s \in Stores |-> "live"]
    /\ pc = [s \in Stores |-> "idle"]
    /\ loc = [s \in Stores |-> NoLoc]
    /\ ret = NoRet
    /\ log = [requests |-> <<>>, batches |-> <<>>]

WriteTurn ==
    \E ok \in BOOLEAN :
       /\ BatchWriteTurn(1, ok)
       /\ log' = [log EXCEPT !.batches = Append(@, batchOf(loc[1].requests))]

WriteNext ==
    \/ \E requests \in WriteInputs :
          /\ BatchWriteCall(1, requests)
          /\ log' = [requests |-> requests, batches |-> <<>>]
    \/ WriteTurn

SpecWrite == InitWrite /\ [][WriteNext]_vars

\* every call of BatchWriteItem returns, with an error or without
SpecWriteLive ==
    SpecWrite /\ WF_vars(WriteTurn)

\* the batches of a sequence of batches, one after the other
RECURSIVE Flatten(_)
Flatten(batches) ==
    IF batches = <<>> THEN <<>>
    ELSE Head(batches) \o Flatten(Tail(batches))

\* C31: the batches that batchWriteRequests has submitted hold from 1 to 25
\* requests each, every one that another followed exactly 25, and one after
\* the other they are the front of the request list, in its order; when it
\* has returned no error they are the whole list, and the last turn was given
\* what was left of it.
C31_BatchesSplitList ==
    /\ \A i \in DOMAIN log.batches :
          /\ Len(log.batches[i]) \in 1..25
          /\ i < Len(log.batches) => Len(log.batches[i]) = 25
    /\ Flatten(log.batches)
          = SubSeq(log.requests, 1, Len(Flatten(log.batches)))
    /\ pc[1] = "batchWrite" =>
          Flatten(log.batches) \o loc[1].requests = log.requests
    /\ (ret = batchWriteRet(NoErr)) => Flatten(log.batches) = log.requests

\* the longest list, longer than two batches, has been written with no
\* error in three batches, the third with what the first two left
C31_Witness ==
    /\ ret = batchWriteRet(NoErr)
    /\ Len(log.requests) = MaxBatchItems
    /\ Len(log.batches) = 3
    /\ Len(log.batches[3]) = MaxBatchItems - 2 * maxBatchSize
    /\ log.batches[3][1] = log.requests[2 * maxBatchSize + 1]

----------------------------------------------------------------------------
\* C32: a call of batchWriteRequests returns: every turn of its loop returns
\* or leaves fewer requests; a turn whose BatchWriteItem does not fail
\* returns no error if it returns; a call that has returned no error has
\* submitted ceil(n/25) batches for a list of n requests; and for the empty
\* list it returns no error at once, with no batch submitted and the table
\* as it was.
C32_BatchWriteTerminates ==
    /\ [][/\ pc[1] = "batchWrite" =>
                \/ pc'[1] = "idle"
                \/ Len(loc'[1].requests) < Len(loc[1].requests)
          /\ BatchWriteTurn(1, TRUE) =>
                (pc'[1] = "idle" => ret' = batchWriteRet(NoErr))
          /\ BatchWriteCall(1, <<>>) =>
                /\ pc'[1] = "idle" /\ ret' = batchWriteRet(NoErr)
                /\ table' = table]_vars
    /\ [](ret = batchWriteRet(NoErr) =>
             Len(log.batches) = (Len(log.requests) + 24) \div 25)
    /\ (pc[1] = "batchWrite") ~> (pc[1] = "idle")

\* a list of one request more than a batch has been written with no error in
\* two batches, and its last request has reached the table
C32_Witness ==
    /\ ret = batchWriteRet(NoErr)
    /\ Len(log.requests) = maxBatchSize + 1
    /\ Len(log.batches) = 2
    /\ \E t \in {table} :
          BatchWriteItem(t, <<log.requests[maxBatchSize + 1]>>) = t

----------------------------------------------------------------------------
(* SpecUpserts: two stores make Upserts, and nothing else, on two kinds, of *)
(* items that fit and items that do not, on a table that no Init has        *)
(* written; any PutItem may fail                                            *)

UpStores == {1, 2}
UpKeys == [features |-> Keys, segments |-> {Str("a")}]
UpItems == ItemsOf(Versions, {Str("x"), BigPayload})

UpsertsNext ==
    \/ \E s \in UpStores, kind \in Kinds, item \in UpItems :
          \E key \in UpKeys[kind] :
             UpsertCall(s, kind, key, item) /\ UNCHANGED log
    \/ \E s \in UpStores, ok \in BOOLEAN : UpsertPut(s, ok) /\ UNCHANGED log

SpecUpserts == Init /\ [][UpsertsNext]_vars

\* the keys at which two tables differ
Changed(t, u) ==
    {pk \in DOMAIN t \cup DOMAIN u :
        pk \notin DOMAIN t \/ pk \notin DOMAIN u \/ t[pk] # u[pk]}

\* C33: a step of an Upsert removes no record, and changes the table at no
\* key but the key of the Upsert in the namespace of its kind, where it puts
\* its item; and where only Upserts are made on a table that holds no inited
\* key, IsInitialized returns false.
C33_UpsertFrame ==
    /\ [][/\ DOMAIN table \subseteq DOMAIN table'
          /\ Changed(table, table') # {} =>
                \E s \in UpStores :
                   /\ pc[s] = "upsertPut" /\ pc'[s] = "idle"
                   /\ Changed(table, table')
                         = {<<namespaceForKind(s, loc[s].kind), loc[s].key>>}
                   /\ Stored(table', ItemKey(s, loc[s].kind, loc[s].key))
                         = loc[s].newItem]_vars
    /\ [](\A s \in UpStores :
             /\ <<initedKey(s), initedKey(s)>> \notin DOMAIN table
             /\ ~isInitialized(s, TRUE))

\* Upserts have put items at the key a of both kinds, of different versions;
\* the Big Segment records are in the table as they were, and no inited key
C33_Witness ==
    /\ ItemKey(1, "features", Str("a")) \in DOMAIN table
    /\ ItemKey(1, "segments", Str("a")) \in DOMAIN table
    /\ Stored(table, ItemKey(1, "features", Str("a"))).Version
          # Stored(table, ItemKey(1, "segments", Str("a"))).Version
    /\ \A pk \in DOMAIN SyncedTable : pk \in DOMAIN table /\ table[pk] = SyncedTable[pk]
    /\ ret.op = "Upsert" /\ ret.applied
    /\ ~isInitialized(1, TRUE)

----------------------------------------------------------------------------
(* SpecReads: store 1 makes every read of the data store, GetAll page by    *)
(* page, and store 2 the reads of the Big Segment store, one call after the *)
(* other, between Upserts, Inits of the empty data set and writes of the    *)
(* synchronizer; any remote call may fail.  log holds the name of the       *)
(* operation that took the last step.                                       *)

ReadOps ==
    {"Get", "GetAll", "IsInitialized", "IsStoreAvailable", "GetMetadata",
     "GetMembership"}

Step(op) == log' = {op}

ReadsNext ==
    \/ \E key \in Keys, item \in ItemsOf(Versions, {Str("x")}) :
          AllIdle /\ UpsertCall(1, "features", key, item) /\ Step("Upsert")
    \/ \E ok \in BOOLEAN : UpsertPut(1, ok) /\ Step("Upsert")
    \/ AllIdle /\ InitCall(1, <<>>) /\ Step("Init")
    \/ \E ok \in BOOLEAN : InitBatch(1, ok) /\ Step("Init")
    \/ \E time \in Times : AllIdle /\ SyncMetadata("", time) /\ Step("Sync")
    \/ \E kind \in Kinds, key \in Keys, ok \in BOOLEAN :
          AllIdle /\ Get(1, kind, key, ok) /\ Step("Get")
    \/ \E kind \in Kinds : AllIdle /\ GetAllCall(1, kind) /\ Step("GetAll")
    \/ \E ok \in BOOLEAN : GetAllPage(1, ok) /\ Step("GetAll")
    \/ \E ok \in BOOLEAN : AllIdle /\ IsInitialized(1, ok) /\ Step("IsInitialized")
    \/ \E ok \in BOOLEAN :
          AllIdle /\ IsStoreAvailable(1, ok) /\ Step("IsStoreAvailable")
    \/ \E ok \in BOOLEAN : AllIdle /\ GetMetadata(2, ok) /\ Step("GetMetadata")
    \/ \E hashKey \in BigHashKeys, ok \in BOOLEAN :
          AllIdle /\ GetMembership(2, hashKey, ok) /\ Step("GetMembership")

SpecReads == Init /\ [][ReadsNext]_vars

\* C34: a step of Get, of GetAll, of IsInitialized, of IsStoreAvailable, of
\* GetMetadata or of GetMembership leaves the table as it is, whether its
\* remote call fails or not.
C34_ReadsDoNotWrite ==
    [][(log' \subseteq ReadOps) => table' = table]_vars

\* a GetAll has returned the two items that Upserts stored, in two pages, on
\* a table that holds no inited key
C34_Witness ==
    /\ log = {"GetAll"} /\ ret.op = "GetAll" /\ ret.err = NoErr
    /\ Len(ret.items) = 2
    /\ <<initedKey(1), initedKey(1)>> \notin DOMAIN table

----------------------------------------------------------------------------
\* the kinds of the collections of a data set
KindsOf(allData) == {allData[c].Kind : c \in DOMAIN allData}

\* the kinds that the step of store 1 writes for: the kind of its Upsert, the
\* kinds of the data set of its Init
WrittenKinds ==
    IF pc[1] = "upsertPut" THEN {loc[1].kind}
    ELSE IF pc[1] = "initWrite" THEN KindsOf(loc[1].allData)
    ELSE {}

\* C35: a step of an Upsert, or of an Init, that changes the table changes
\* what Get and GetAll return for no kind but the kind of the Upsert, or the
\* kinds of the data set, also where another kind holds a record of the same
\* key; and every item that GetAll of a kind returns is the record stored at
\* its key in the namespace of that kind, which is not the inited key and
\* not a Big Segment record.
C35_AddressedByNamespaceAndKey ==
    /\ [][table' # table =>
             \A kind \in Kinds \ WrittenKinds :
                /\ getAll(1, kind, TRUE)' = getAll(1, kind, TRUE)
                /\ \A key \in Keys :
                      get(1, kind, key, TRUE)' = get(1, kind, key, TRUE)]_vars
    /\ [](\A kind \in Kinds :
             LET items == getAll(1, kind, TRUE).items
             IN  \A i \in DOMAIN items :
                    LET pk == <<namespaceForKind(1, kind), items[i].Key>>
                    IN  /\ pk \in DOMAIN table \ Protected(table)
                        /\ Stored(table, pk) = items[i].Item
                        /\ \A j \in DOMAIN items : items[j].Key = items[i].Key => j = i)

\* both kinds hold a record at the key a, of different content, beside the
\* Big Segment record of the key a and the inited key; the Upsert that has
\* just been applied wrote the one of the kind features
C35_Witness ==
    /\ ret.op = "Upsert" /\ ret.applied /\ ret.kind = "features"
    /\ ret.key = Str("a")
    /\ ItemKey(1, "segments", Str("a")) \in DOMAIN table
    /\ Stored(table, ItemKey(1, "segments", Str("a"))) # ret.newItem
    /\ get(1, "features", Str("a"), TRUE).item = ret.newItem
    /\ <<Str(bigSegmentsUserDataKey), Str("a")>> \in DOMAIN table
    /\ <<initedKey(1), initedKey(1)>> \in DOMAIN table
    /\ Len(getAll(1, "segments", TRUE).items) = 1

----------------------------------------------------------------------------
(* SpecShape: the four decoders are applied, in any order and any number of *)
(* times, to an attribute value of any type: a string, a number, a binary   *)
(* value, a string set, a boolean, or the null that stands for a missing   *)
(* attribute as well                                                        *)

ShapeTexts ==
    {Str(""), Str("a"), Str("7"), Str("07"), Str("-1"), Str("+7"), Str("1.5"),
     Str("x7"), Str(Itoa(MaxVersion).data)}

ShapeValues ==
    {[type |-> t, value |-> v] : t \in {"S", "N", "B"}, v \in ShapeTexts}
    \cup {[type |-> "SS", value |-> refs] : refs \in SUBSET {"s1", "s2"}}
    \cup {[type |-> "BOOL", value |-> b] : b \in BOOLEAN}
    \cup {NilAttr}

InitShape ==
    /\ table = EmptyTable
    /\ prefix = [s \in Stores |-> ""]
    /\ ctx = [s \in Stores |-> "live"]
    /\ pc = [s \in Stores |-> "idle"]
    /\ loc \in {[s \in Stores |->
                   IF s = 1 THEN [op |-> "decode", value |-> value] ELSE NoLoc] :
                value \in ShapeValues}
    /\ ret = NoRet
    /\ log = {}

DecodeString ==
    /\ ret' = [op |-> "attrValueToString", value |-> attrValueToString(loc[1].value)]
    /\ UNCHANGED <<table, prefix, ctx, pc, loc, log>>

DecodeInt ==
    /\ ret' = [op |-> "attrValueToInt", value |-> attrValueToInt(loc[1].value)]
    /\ UNCHANGED <<table, prefix, ctx, pc, loc, log>>

DecodeUint64 ==
    /\ ret' = [op |-> "attrValueToUint64", value |-> attrValueToUint64(loc[1].value)]
    /\ UNCHANGED <<table, prefix, ctx, pc, loc, log>>

DecodeStringList ==
    /\ ret' = [op |-> "getStringListFromSet",
               value |-> getStringListFromSet(loc[1].value)]
    /\ UNCHANGED <<table, prefix, ctx, pc, loc, log>>

ShapeNext == DecodeString \/ DecodeInt \/ DecodeUint64 \/ DecodeStringList

SpecShape == InitShape /\ [][ShapeNext]_vars

\* a text of one decimal digit or more, and such a text with a sign or none
IsUintText(t) ==
    /\ t.pad = 0 /\ Len(t.data) > 0
    /\ \A i \in 1..Len(t.data) :
          SubSeq(t.data, i, i) \in {"0", "1", "2", "3", "4", "5", "6", "7", "8", "9"}

IsIntText(t) ==
    \/ IsUintText(t)
    \/ /\ t.pad = 0 /\ Len(t.data) > 1
       /\ SubSeq(t.data, 1, 1) \in {"-", "+"}
       /\ IsUintText(Str(SubSeq(t.data, 2, Len(t.data))))

\* what the integer, the unsigned and the string-set decoder return for an
\* attribute that is no number, a number that is not parsed, or no set
ZeroForOtherShapes ==
    /\ (ret.op = "attrValueToInt"
          /\ ~(loc[1].value.type = "N" /\ IsIntText(loc[1].value.value))) =>
          ret.value = 0
    /\ (ret.op = "attrValueToUint64"
          /\ ~(loc[1].value.type = "N" /\ IsUintText(loc[1].value.value))) =>
          ret.value = 0
    /\ (ret.op = "getStringListFromSet" /\ loc[1].value.type # "SS") =>
          ret.value = {}

\* C36 as stated: the string decoder returns the empty string for every
\* attribute that is no string, the other decoders return 0 or the empty
\* list for every attribute of another shape
C36_WrongShapeIsZero ==
    /\ (ret.op = "attrValueToString" /\ loc[1].value.type # "S") =>
          ret.value = Str("")
    /\ ZeroForOtherShapes

\* C36, amended: the string decoder returns the text of a string and of a
\* number, and the empty string for every attribute that is neither; the
\* integer and the unsigned decoder return 0 for every attribute that is no
\* number or whose text they do not parse, the unsigned one a signed text
\* included; the string-set decoder returns the empty list for every
\* attribute that is no string set.
C36_OtherShapeIsZero ==
    /\ ret.op = "attrValueToString" =>
          ret.value = IF loc[1].value.type \in {"S", "N"}
                      THEN loc[1].value.value ELSE Str("")
    /\ ZeroForOtherShapes

\* the string decoder has returned the empty string for a string set that
\* is not empty
C36_Witness ==
    /\ ret.op = "attrValueToString" /\ ret.value = Str("")
    /\ loc[1].value.type = "SS" /\ loc[1].value.value # {}

====
